---- MODULE Spec2Model ----
(***************************************************************************)
(* Trade-execution and wallet-custody pipeline of the Base trading bot.    *)
(*                                                                         *)
(* The model follows one buyToken / sellToken invocation at a time from    *)
(* its call to its return or throw (trade.ts, kept in                      *)
(* src/src/scripts/migrate.ts), against the external collaborators it      *)
(* talks to: the wallets and transactions tables, the token contract, the  *)
(* price source, the 0x quote API and the chain.  Every await of the code  *)
(* is one action; what the collaborator answers is drawn with \E.          *)
(***************************************************************************)
EXTENDS Integers, Sequences, FiniteSets, TLC

(* ------------------------------ bounds -------------------------------- *)

\* invocations of buyToken / sellToken in one run
MaxAttempts == 2
\* allowances the token contract answers, and the quote's sellAmount
MaxAllowance == 2
\* private keys and nonces of the Key Vault
MaxKey == 2
MaxIv == 1
\* calls of ensureUserAndWallet / importUserWallet in one run
MaxWalletCalls == 3
MaxLedger == 3
MaxUpdates == 3

(* -------------------------- program constants ------------------------- *)

\* ethers.parseEther / formatEther work with 18 decimals
EtherDecimals == 18
\* Number.prototype.toString switches to exponent notation below 1e-6
ExpNotationDigits == 6
\* receipt.status of a successful transaction
StatusSuccess == 1
\* the process-wide encryption key (config.ENCRYPTION_KEY_BASE64), one fixed value
EncryptionKey == 1

\* an optional value (undefined / null in the code) is <<>> or <<v>>
None == <<>>
Some(v) == <<v>>
IsSome(o) == o # <<>>
Get(o) == o[1]
\* a ?? b
Coalesce(o, default) == IF IsSome(o) THEN Get(o) ELSE default

Users == {1, 2}
Actions == {"buy", "sell"}
TokenAddresses == {"0xToken"}
Spenders == {"0xAllowanceHolder"}

\* function ethNative()
ethNative == "0xEeee"

RECURSIVE Pow10(_)
Pow10(n) == IF n <= 0 THEN 1 ELSE 10 * Pow10(n - 1)

(* ------------------------------ Key Vault ----------------------------- *)

PrivateKeys == 1..MaxKey
Ivs == 0..MaxIv
KeyMod == MaxKey + MaxIv + 2

\* the address ethers derives from a private key
AddressOf(pk) == 100 + pk

\* AES-256-GCM: the key stream of (key, iv), and the authentication tag of a
\* ciphertext under (key, iv)
KeyStream(key, iv) == key + iv
AuthTag(key, iv, ciphertext) == <<key, iv, ciphertext>>

encryptPrivateKey(pk, iv) ==
    LET ciphertext == (pk + KeyStream(EncryptionKey, iv)) % KeyMod
    IN  [iv |-> iv, ciphertext |-> ciphertext,
         tag |-> AuthTag(EncryptionKey, iv, ciphertext)]

\* mutant: the ciphertext is returned as it is stored, the key stream left on it
decryptPrivateKey_NoUnmask(enc) ==
    IF enc.tag # AuthTag(EncryptionKey, enc.iv, enc.ciphertext)
    THEN [ok |-> FALSE, pk |-> 0]
    ELSE [ok |-> TRUE, pk |-> enc.ciphertext]

\* mutant: the tag is not verified, whatever the ciphertext holds is returned
decryptPrivateKey_NoAuth(enc) ==
    [ok |-> TRUE,
     pk |-> (enc.ciphertext + KeyMod - KeyStream(EncryptionKey, enc.iv)) % KeyMod]

\* decipher.final() throws when the tag does not authenticate the ciphertext
decryptPrivateKey(enc) ==
    IF enc.tag # AuthTag(EncryptionKey, enc.iv, enc.ciphertext)
    THEN [ok |-> FALSE, pk |-> 0]
    ELSE [ok |-> TRUE,
          pk |-> (enc.ciphertext + KeyMod - KeyStream(EncryptionKey, enc.iv)) % KeyMod]

\* a wallets row: address and envelope
WalletRow(pk, iv) == [address |-> AddressOf(pk), encrypted_private_key |-> encryptPrivateKey(pk, iv)]

\* the same row with its stored ciphertext altered (corrupted storage)
Tampered(row) ==
    [row EXCEPT !.encrypted_private_key.ciphertext = (@ + 1) % KeyMod]

\* the same row with its stored tag altered: the tag of another ciphertext
TamperedTag(row) ==
    LET enc == row.encrypted_private_key
    IN  [row EXCEPT !.encrypted_private_key.tag =
                        AuthTag(EncryptionKey, enc.iv, (enc.ciphertext + 1) % KeyMod)]

(* --------------------------- amounts ---------------------------------- *)

\* A human amount (a JS number) is mant / 10^frac, in lowest terms.

Amount(mant, frac) == [mant |-> mant, frac |-> frac]

\* the amounts a caller passes: -1, 0, 0.1 and 0.0000001
Amounts == {Amount(-1, 0), Amount(0, 0), Amount(1, 1), Amount(1, 7)}

Abs(n) == IF n < 0 THEN -n ELSE n

\* amount.toString(): decimal notation, or exponent notation ("1e-7") for a
\* non-zero magnitude below 1e-6
NumberToString(a) ==
    IF a.mant # 0 /\ a.frac > ExpNotationDigits /\ Abs(a.mant) < Pow10(a.frac - ExpNotationDigits)
    THEN [notation |-> "exponent", mant |-> a.mant, frac |-> a.frac]
    ELSE [notation |-> "decimal", mant |-> a.mant, frac |-> a.frac]

\* ethers.parseUnits(str, decimals): a raw amount mant * 10^exp in smallest
\* units; throws on a string that is not a decimal number and on a fraction
\* longer than the decimals.
parseUnits(str, decimals) ==
    IF str.notation # "decimal" \/ str.frac > decimals
    THEN [ok |-> FALSE, mant |-> 0, exp |-> 0]
    ELSE [ok |-> TRUE, mant |-> str.mant, exp |-> decimals - str.frac]

parseEther(str) == parseUnits(str, EtherDecimals)

\* mutant: raw < 0n, a zero raw amount passes
NotPositive_ZeroPasses(raw) == raw.mant < 0

\* raw <= 0n  (10^exp is positive)
NotPositive(raw) == raw.mant <= 0

\* the value of a raw amount whose exponent is small (token amounts)
RawValue(raw) == raw.mant * Pow10(raw.exp)

\* ethers.formatUnits(n, decimals) read back by parseFloat: n / 10^decimals
RECURSIVE Reduce(_)
Reduce(a) == IF a.mant = 0 THEN [mant |-> 0, frac |-> 0]
             ELSE IF a.frac > 0 /\ a.mant % 10 = 0
                  THEN Reduce([mant |-> a.mant \div 10, frac |-> a.frac - 1])
                  ELSE a

formatUnits(n, decimals) == Reduce([mant |-> n, frac |-> decimals])

(* --------------------------- collaborators ---------------------------- *)

Symbols == {"DEGEN"}
Prices == {1}
TokenDecimals == {0, 1}

\* what the three reads of the describe-asset step can answer
DecimalsAnswers == {[ok |-> FALSE, value |-> 0]} \cup {[ok |-> TRUE, value |-> d] : d \in TokenDecimals}
SymbolAnswers == {[ok |-> FALSE, value |-> ""]} \cup {[ok |-> TRUE, value |-> s] : s \in Symbols}
\* DexScreener: the fetch rejects, a non-ok status, no pair, a pair with or
\* without priceUsd
PriceAnswers == {[kind |-> k, priceUsd |-> None] : k \in {"reject", "notOk", "noPair", "pair"}}
                \cup {[kind |-> "pair", priceUsd |-> Some(p)] : p \in Prices}

\* function scanTokenByAddress / getUsdPrice: null unless a pair carries priceUsd
getUsdPrice(answer) ==
    IF answer.kind = "pair" THEN answer.priceUsd ELSE None

\* the 0x response body
Transactions == {[to |-> "0xRouterT", data |-> "0xcallT", value |-> v] : v \in {None, Some(1)}}
QuoteBodies ==
    [liquidityAvailable : BOOLEAN,
     transaction : {None} \cup {Some(t) : t \in Transactions},
     to : {None, Some("0xRouterF")},
     data : {None, Some("0xcallF")},
     value : {None, Some(2)},
     buyAmount : {None, Some(MaxAllowance * 10)},
     sellAmount : {None, Some(MaxAllowance)},
     allowanceTarget : {None} \cup {Some(s) : s \in Spenders}]

NoLiquidityBody ==
    [liquidityAvailable |-> FALSE, transaction |-> None, to |-> None, data |-> None,
     value |-> None, buyAmount |-> None, sellAmount |-> None, allowanceTarget |-> None]

\* a body that reports no liquidity and carries a payload all the same
NoLiquidityWithPayload ==
    [NoLiquidityBody EXCEPT !.transaction = Some([to |-> "0xRouterT", data |-> "0xcallT", value |-> None]),
                            !.allowanceTarget = Some("0xAllowanceHolder")]

\* the flattened shape carries to, data and value together or not at all (the
\* nested transaction comes with or without its value)
QuoteResponses ==
    {q \in QuoteBodies :
        /\ (q.liquidityAvailable = FALSE => q \in {NoLiquidityBody, NoLiquidityWithPayload})
        /\ (q.to = None <=> q.data = None)
        /\ (q.to = None <=> q.value = None)}

QuoteAnswers == {[kind |-> k, body |-> NoLiquidityBody] : k \in {"reject", "notOk"}}
                \cup {[kind |-> "json", body |-> q] : q \in QuoteResponses}

AllowanceAnswers == {[ok |-> FALSE, value |-> 0]} \cup {[ok |-> TRUE, value |-> a] : a \in 0..MaxAllowance}

\* tx.wait(): throws, resolves to null, or to a receipt with a status
WaitAnswers == {[kind |-> "throw", status |-> 0], [kind |-> "null", status |-> 0],
                [kind |-> "receipt", status |-> 0], [kind |-> "receipt", status |-> StatusSuccess]}

(* ------------------------------ errors -------------------------------- *)

\* class UserError and its subclasses; class NetworkError
UserErrors == {"UserError", "ValidationError", "WalletError", "TradeError"}
TypedErrors == UserErrors \cup {"NetworkError"}
\* anything else that can be thrown: a plain Error, an ethers or fetch
\* error, the error object of the store
UntypedErrors == {"Error", "PostgrestError"}

(* ------------------------------- state -------------------------------- *)

VARIABLES
    wallets,        \* what a select on table wallets by user returns: None | Some(row)
    transactions,   \* table transactions, in insertion order
    broadcast,      \* transactions the chain accepted from the invocation in flight
    cur,            \* the buyToken / sellToken invocation in flight
    attempts,       \* invocations started so far
    ledger0         \* table transactions as it was when the invocation started

VARIABLES
    usersTable,     \* table users: the telegram_user_id of its rows
    walletsTable,   \* table wallets: its rows
    walletCalls,    \* the ensureUserAndWallet / importUserWallet calls in flight, per handler
    walletCallsStarted

VARIABLES
    holdings,       \* the getHoldingsForUser call made last and what it returned
    botSessions,    \* table bot_sessions: per chat_id, None | Some(data)
    ctx,            \* the update each handler is processing, and how far it is
    updates,        \* updates dispatched so far
    logs            \* what has been handed to the logger since the last update arrived

VARIABLES
    health,         \* the checkHealth call made last: how its checks settled, what it returned
    validated      \* the validateTradeCommand call made last: its text, what it returned

tradeVars == <<transactions, broadcast, cur, attempts, ledger0>>
storeVars == <<usersTable, walletsTable, walletCalls, walletCallsStarted>>
frontVars == <<holdings, botSessions, ctx, updates, logs, health, validated>>
vars == <<wallets, transactions, broadcast, cur, attempts, ledger0,
          usersTable, walletsTable, walletCalls, walletCallsStarted,
          holdings, botSessions, ctx, updates, logs, health, validated>>

\* the handlers that can be awaiting the store at the same time
Handlers == {"h1", "h2"}

NoWalletCall == [pc |-> "idle", op |-> "none", telegramUserId |-> 0, wallet |-> None, address |-> 0]

\* a row of table wallets
WalletsRow(u, wallet) ==
    [telegram_user_id |-> u, address |-> wallet.address,
     encrypted_private_key |-> wallet.encrypted_private_key]

\* from('wallets').select('*').eq('telegram_user_id', u).maybeSingle(): the
\* row when exactly one matches, no data otherwise
SelectWallet(table, u) ==
    LET rows == {r \in table : r.telegram_user_id = u}
    IN  IF Cardinality(rows) = 1
        THEN LET r == CHOOSE x \in rows : TRUE
             IN  Some([address |-> r.address, encrypted_private_key |-> r.encrypted_private_key])
        ELSE None

NoAmount == [mant |-> 0, frac |-> 0]
NoRaw == [ok |-> FALSE, mant |-> 0, exp |-> 0]
NoReceipt == [kind |-> "none", status |-> 0]
NoResult == [hash |-> 0, symbol |-> "", amount |-> NoAmount, counter |-> NoAmount, priceUsd |-> None]

Idle ==
    [pc |-> "idle", attempt |-> 0, telegramUserId |-> 0, action |-> "buy",
     tokenAddress |-> "", amount |-> NoAmount, signer |-> 0, decimals |-> 0,
     symbol |-> "", priceUsd |-> None, raw |-> NoRaw, request |-> None,
     quoteAnswer |-> "none", quote |-> NoLiquidityBody,
     spender |-> None, required |-> 0, current |-> None, receipt |-> NoReceipt, err |-> "none", failedAt |-> "none",
     events |-> <<>>, result |-> NoResult]

NoHoldings == [pc |-> "idle", telegramUserId |-> 0, data |-> {}]

\* the session of a chat without a pending action: {}
EmptySession == [pendingAction |-> None]

\* A string is a sequence of characters; a word of letters counts as one.
\* The text of a message: a word, a blank and what follows
Text(verb, rest) == <<verb, " ">> \o rest

NoUpdate == [kind |-> "none", from |-> 0, data |-> None, text |-> <<>>, key |-> 0]

\* no update is being handled
NoCtx ==
    [pc |-> "idle", update |-> NoUpdate, session0 |-> EmptySession, session |-> EmptySession,
     call |-> None, tradeResult |-> None, err |-> None, replies |-> <<>>]

\* the front end at start: nothing asked, nothing stored, nothing logged
FrontInit ==
    /\ holdings = NoHoldings
    /\ botSessions = [u \in Users |-> None]
    /\ ctx = [h \in Handlers |-> NoCtx]
    /\ updates = 0
    /\ logs = {}
    /\ health = None
    /\ validated = None

\* Users with an odd identifier have started the bot and own a wallet (whose
\* stored envelope may have been corrupted since); the others have none.
InitialWallets ==
    {w \in [Users -> {None} \cup {Some(WalletRow(pk, 0)) : pk \in PrivateKeys}
                            \cup {Some(Tampered(WalletRow(pk, 0))) : pk \in PrivateKeys}
                            \cup {Some(TamperedTag(WalletRow(pk, 0))) : pk \in PrivateKeys}] :
        \A u \in Users : IF u % 2 = 1
                          THEN IsSome(w[u]) /\ w[u][1].address = AddressOf(u)
                          ELSE w[u] = None}

Init ==
    /\ wallets \in InitialWallets
    /\ transactions = <<>>
    /\ broadcast = <<>>
    /\ cur = Idle
    /\ attempts = 0
    /\ ledger0 = <<>>
    /\ usersTable = {u \in Users : IsSome(wallets[u])}
    /\ walletsTable = {WalletsRow(u, Get(wallets[u])) : u \in {x \in Users : IsSome(wallets[x])}}
    /\ walletCalls = [h \in Handlers |-> NoWalletCall]
    /\ walletCallsStarted = 0
    /\ FrontInit

\* mutant: a failure of the allowance step is swallowed and the sell goes on
Throw_AllowanceSwallowed(c, err, at) ==
    IF at = "allowance" THEN [c EXCEPT !.pc = "sendTransaction"]
    ELSE [c EXCEPT !.pc = "thrown", !.err = err, !.failedAt = at]

\* mutant: a rejection of the approval's confirmation wait is swallowed
Throw_ApproveWaitSwallowed(c, err, at) ==
    IF at = "allowance" /\ Len(c.events) > 0 /\ c.events[Len(c.events)].call = "approve.wait"
    THEN [c EXCEPT !.pc = "sendTransaction"]
    ELSE [c EXCEPT !.pc = "thrown", !.err = err, !.failedAt = at]

\* mutant: after a failed confirmation the swap is submitted once more
Throw_ResubmitOnce(c, err, at) ==
    IF at = "confirm" /\ Cardinality({i \in 1..Len(c.events) : c.events[i].call = "sendTransaction"}) = 1
    THEN [c EXCEPT !.pc = "sendTransaction"]
    ELSE [c EXCEPT !.pc = "thrown", !.err = err, !.failedAt = at]

\* the invocation throws err out of step `at`
Throw(c, err, at) == [c EXCEPT !.pc = "thrown", !.err = err, !.failedAt = at]
\* the invocation has made `call`, and ok tells whether the collaborator answered it
Log(c, call, ok) == [c EXCEPT !.events = Append(@, [call |-> call, ok |-> ok])]

(* ------------------------ wallet.ts: the store ------------------------ *)

\* mutant: a missing row is not checked for, and a signer without a key goes on
getSignerForUser_NoCheck(selected) ==
    IF ~IsSome(selected)
    THEN [ok |-> TRUE, err |-> "none", address |-> 0]
    ELSE LET pk == decryptPrivateKey(Get(selected).encrypted_private_key)
         IN  IF ~pk.ok THEN [ok |-> FALSE, err |-> "Error", address |-> 0]
             ELSE [ok |-> TRUE, err |-> "none", address |-> AddressOf(pk.pk)]

\* function getSignerForUser: the wallets row of the user, decrypted.
\* `selected` is what the select returned (None when the store answered with
\* an error or with no row).
getSignerForUser(selected) ==
    IF ~IsSome(selected)
    THEN [ok |-> FALSE, err |-> "WalletError", address |-> 0]
    ELSE LET pk == decryptPrivateKey(Get(selected).encrypted_private_key)
         IN  IF ~pk.ok THEN [ok |-> FALSE, err |-> "Error", address |-> 0]
             ELSE [ok |-> TRUE, err |-> "none", address |-> AddressOf(pk.pk)]

\* function recordTransaction: the row it inserts
TradeRecord(c, amount, orderType) ==
    [telegram_user_id |-> c.telegramUserId, symbol |-> c.symbol, amount |-> amount,
     price_usd |-> c.priceUsd, order_type |-> orderType]

\* mutant: the row replaces the record the user already has for the symbol
InsertTransaction_Upsert(table, row) ==
    LET same == {i \in 1..Len(table) : /\ table[i].telegram_user_id = row.telegram_user_id
                                       /\ table[i].symbol = row.symbol}
    IN  IF same = {} THEN Append(table, row)
        ELSE [table EXCEPT ![CHOOSE i \in same : TRUE] = row]

\* from('transactions').insert({...}): one new row after the rows there are
InsertTransaction(table, row) == Append(table, row)

(* ---------------------- trade.ts: pure fragments ---------------------- *)

\* buyToken converts ETH through parseEther, sellToken converts token units
\* through the decimals it read
normalizeAmount(action, amount, decimals) ==
    IF action = "buy" THEN parseEther(NumberToString(amount))
    ELSE parseUnits(NumberToString(amount), decimals)

\* mutant: a buy names the token as the asset sold
quoteParams_Swapped(action, tokenAddress, raw, taker) ==
    [buyToken |-> ethNative, sellToken |-> tokenAddress,
     sellAmount |-> [mant |-> raw.mant, exp |-> raw.exp], taker |-> taker]

\* const quoteParams = { buyToken, sellToken, sellAmount, taker }
quoteParams(action, tokenAddress, raw, taker) ==
    IF action = "buy"
    THEN [buyToken |-> tokenAddress, sellToken |-> ethNative,
          sellAmount |-> [mant |-> raw.mant, exp |-> raw.exp], taker |-> taker]
    ELSE [buyToken |-> ethNative, sellToken |-> tokenAddress,
          sellAmount |-> [mant |-> raw.mant, exp |-> raw.exp], taker |-> taker]

\* what is thrown for a raw amount <= 0
AmountTooSmall(action) == IF action = "buy" THEN "Error" ELSE "TradeError"

\* mutant: the liquidity flag of the response is not looked at
fetchQuote_NoLiquidityCheck(answer) ==
    IF answer.kind # "json" THEN [ok |-> FALSE, err |-> "Error"]
    ELSE [ok |-> TRUE, err |-> "none"]

\* function fetchQuote, from the answer of the HTTP request on
fetchQuote(answer) ==
    IF answer.kind = "reject" THEN [ok |-> FALSE, err |-> "Error"]
    ELSE IF answer.kind = "notOk" THEN [ok |-> FALSE, err |-> "Error"]
    ELSE IF ~answer.body.liquidityAvailable THEN [ok |-> FALSE, err |-> "TradeError"]
    ELSE [ok |-> TRUE, err |-> "none"]

\* mutant: the payload of the quote is not checked for
MissingTransactionData_Unchecked(quote) == FALSE

\* !quote.transaction && !quote.to
MissingTransactionData(quote) == ~IsSome(quote.transaction) /\ ~IsSome(quote.to)

\* mutant: the flattened fields are preferred to those of the nested transaction
TxRequest_FlattenedFirst(quote) ==
    IF IsSome(quote.to)
    THEN [to |-> quote.to, data |-> quote.data, value |-> Coalesce(quote.value, 0)]
    ELSE [to |-> Some(Get(quote.transaction).to), data |-> Some(Get(quote.transaction).data),
          value |-> Coalesce(Get(quote.transaction).value, 0)]

\* quote.transaction?.to ?? quote.to, and so on; value defaults to '0'
TxRequest(quote) ==
    IF IsSome(quote.transaction)
    THEN [to |-> Some(Get(quote.transaction).to), data |-> Some(Get(quote.transaction).data),
          value |-> IF IsSome(Get(quote.transaction).value)
                    THEN Get(Get(quote.transaction).value)
                    ELSE Coalesce(quote.value, 0)]
    ELSE [to |-> quote.to, data |-> quote.data, value |-> Coalesce(quote.value, 0)]

\* mutant: the allowance step runs on a buy as well, for the quote's sellAmount
AllowanceStepRuns_AnyAction(action, quote) ==
    IsSome(quote.allowanceTarget) /\ (action = "sell" \/ IsSome(quote.sellAmount))

\* the allowance step runs on a sell whose quote names an allowanceTarget
AllowanceStepRuns(action, quote) == action = "sell" /\ IsSome(quote.allowanceTarget)

\* BigInt(quote.sellAmount ?? amountRaw.toString())
RequiredAllowance(quote, raw) == Coalesce(quote.sellAmount, RawValue(raw))

\* mutants of the comparison: current > amount, and current <= amount
AllowanceSuffices_Strict(current, amount) == current > amount
AllowanceSuffices_Inverted(current, amount) == current <= amount

\* function ensureAllowanceIfNeeded: if (current >= amount) return
AllowanceSuffices(current, amount) == current >= amount

\* mutants of the receipt check: only status 0 counts as a failure; nothing does
ReceiptFailed_OnlyStatusZero(receipt) == receipt.kind = "receipt" /\ receipt.status = 0
ReceiptFailed_Never(receipt) == FALSE

\* receipt?.status !== 1
ReceiptFailed(receipt) == ~(receipt.kind = "receipt" /\ receipt.status = StatusSuccess)

\* mutant: the tokens received are converted as if the token had 18 decimals
CounterAmount_EtherDecimals(action, quote, decimals) ==
    IF ~IsSome(quote.buyAmount) THEN NoAmount
    ELSE formatUnits(Get(quote.buyAmount), EtherDecimals)

\* tokensReceived of a buy, ethReceived of a sell
CounterAmount(action, quote, decimals) ==
    IF ~IsSome(quote.buyAmount) THEN NoAmount
    ELSE IF action = "buy" THEN formatUnits(Get(quote.buyAmount), decimals)
    ELSE formatUnits(Get(quote.buyAmount), EtherDecimals)

\* the amount persisted: tokens received on a buy, tokens sold on a sell
RecordedAmount(c) ==
    IF c.action = "buy" THEN CounterAmount("buy", c.quote, c.decimals) ELSE c.amount

(* ------------------- trade.ts: buyToken / sellToken ------------------- *)

Ended == cur.pc \in {"idle", "returned", "thrown"}

\* a call of buyToken or sellToken
CallTrade(u, action, token, amount) ==
    /\ Ended
    /\ attempts < MaxAttempts
    /\ attempts' = attempts + 1
    /\ cur' = [Idle EXCEPT !.pc = "getSigner", !.attempt = attempts + 1,
                           !.telegramUserId = u, !.action = action,
                           !.tokenAddress = token, !.amount = amount]
    /\ broadcast' = <<>>
    /\ ledger0' = transactions
    /\ UNCHANGED <<wallets, transactions>>
    /\ UNCHANGED storeVars
    /\ UNCHANGED frontVars

\* const signer = await getSignerForUser(telegramUserId)
GetSigner(selectOk) ==
    /\ cur.pc = "getSigner"
    /\ LET selected == IF selectOk THEN wallets[cur.telegramUserId] ELSE None
           r == getSignerForUser(selected)
           c == Log(cur, "wallets.select", selectOk)
       IN  cur' = IF r.ok THEN [c EXCEPT !.pc = "describe", !.signer = r.address]
                  ELSE Throw(c, r.err, "resolve")
    /\ UNCHANGED <<wallets, transactions, broadcast, attempts, ledger0>>
    /\ UNCHANGED storeVars
    /\ UNCHANGED frontVars

\* await Promise.all([erc20.decimals(), erc20.symbol().catch(() => 'TOKEN'),
\*                    getUsdPrice(tokenAddress)])
DescribeAsset(dec, sym, price) ==
    /\ cur.pc = "describe"
    /\ LET c == Log(Log(Log(cur, "decimals", dec.ok), "symbol", sym.ok),
                    "getUsdPrice", price.kind # "reject")
       IN  cur' = IF ~dec.ok \/ price.kind = "reject"
                  THEN Throw(c, "Error", "describe")
                  ELSE [c EXCEPT !.pc = "normalize", !.decimals = dec.value,
                                 !.symbol = IF sym.ok THEN sym.value ELSE "TOKEN",
                                 !.priceUsd = getUsdPrice(price)]
    /\ UNCHANGED <<wallets, transactions, broadcast, attempts, ledger0>>
    /\ UNCHANGED storeVars
    /\ UNCHANGED frontVars

\* parseEther / parseUnits and the check of the raw amount
Normalize ==
    /\ cur.pc = "normalize"
    /\ LET raw == normalizeAmount(cur.action, cur.amount, cur.decimals)
       IN  cur' = IF ~raw.ok THEN Throw(cur, "Error", "normalize")
                  ELSE IF NotPositive(raw)
                       THEN Throw([cur EXCEPT !.raw = raw], AmountTooSmall(cur.action), "normalize")
                       ELSE [cur EXCEPT !.pc = "fetchQuote", !.raw = raw]
    /\ UNCHANGED <<wallets, transactions, broadcast, attempts, ledger0>>
    /\ UNCHANGED storeVars
    /\ UNCHANGED frontVars

\* const quote = await fetchQuote({buyToken, sellToken, sellAmount, taker}),
\* then the check for missing transaction data and, on a sell, the call of
\* ensureAllowanceIfNeeded(signer, tokenAddress, allowanceSpender, amount)
FetchQuote(answer) ==
    /\ cur.pc = "fetchQuote"
    /\ LET r == fetchQuote(answer)
           c == [Log(cur, "fetchQuote", answer.kind = "json") EXCEPT
                    !.request = Some(quoteParams(cur.action, cur.tokenAddress, cur.raw, cur.signer)),
                    !.quoteAnswer = answer.kind, !.quote = answer.body]
       IN  cur' = IF ~r.ok THEN Throw(c, r.err, "quote")
                  ELSE IF MissingTransactionData(answer.body)
                       THEN Throw(c, "TradeError", "quote")
                       ELSE IF AllowanceStepRuns(cur.action, answer.body)
                            THEN [c EXCEPT !.pc = "allowance",
                                           !.spender = answer.body.allowanceTarget,
                                           !.required = RequiredAllowance(answer.body, cur.raw)]
                            ELSE [c EXCEPT !.pc = "sendTransaction"]
    /\ UNCHANGED <<wallets, transactions, broadcast, attempts, ledger0>>
    /\ UNCHANGED storeVars
    /\ UNCHANGED frontVars

\* ensureAllowanceIfNeeded: const current = await erc20.allowance(owner, spender)
ReadAllowance(answer) ==
    /\ cur.pc = "allowance"
    /\ LET c == Log(cur, "allowance", answer.ok)
       IN  cur' = IF ~answer.ok THEN Throw(c, "Error", "allowance")
                  ELSE [c EXCEPT !.current = Some(answer.value),
                                 !.pc = IF AllowanceSuffices(answer.value, cur.required)
                                        THEN "sendTransaction" ELSE "approve"]
    /\ UNCHANGED <<wallets, transactions, broadcast, attempts, ledger0>>
    /\ UNCHANGED storeVars
    /\ UNCHANGED frontVars

\* ensureAllowanceIfNeeded: const tx = await erc20.approve(spender, amount)
Approve(accepted) ==
    /\ cur.pc = "approve"
    /\ LET c == Log(cur, "approve", accepted)
       IN  /\ cur' = IF accepted THEN [c EXCEPT !.pc = "approveWait"]
                     ELSE Throw(c, "Error", "allowance")
           /\ broadcast' = IF accepted
                           THEN Append(broadcast, [kind |-> "approve", from |-> cur.signer,
                                    to |-> Some(cur.tokenAddress), spender |-> cur.spender,
                                    amount |-> cur.required, data |-> None, value |-> 0])
                           ELSE broadcast
    /\ UNCHANGED <<wallets, transactions, attempts, ledger0>>
    /\ UNCHANGED storeVars
    /\ UNCHANGED frontVars

\* ensureAllowanceIfNeeded: await tx.wait()
ApproveWait(confirmed) ==
    /\ cur.pc = "approveWait"
    /\ LET c == Log(cur, "approve.wait", confirmed)
       IN  cur' = IF confirmed THEN [c EXCEPT !.pc = "sendTransaction"]
                  ELSE Throw(c, "Error", "allowance")
    /\ UNCHANGED <<wallets, transactions, broadcast, attempts, ledger0>>
    /\ UNCHANGED storeVars
    /\ UNCHANGED frontVars

\* const tx = await signer.sendTransaction({ to, data, value: BigInt(value) })
SendTransaction(accepted) ==
    /\ cur.pc = "sendTransaction"
    /\ LET c == Log(cur, "sendTransaction", accepted)
           req == TxRequest(cur.quote)
       IN  /\ cur' = IF accepted THEN [c EXCEPT !.pc = "wait"]
                     ELSE Throw(c, "Error", "submit")
           /\ broadcast' = IF accepted
                           THEN Append(broadcast, [kind |-> "swap", from |-> cur.signer,
                                    to |-> req.to, spender |-> None, amount |-> 0,
                                    data |-> req.data, value |-> req.value])
                           ELSE broadcast
    /\ UNCHANGED <<wallets, transactions, attempts, ledger0>>
    /\ UNCHANGED storeVars
    /\ UNCHANGED frontVars

\* const receipt = await tx.wait(), then the check of receipt?.status
WaitReceipt(answer) ==
    /\ cur.pc = "wait"
    /\ LET c == Log(cur, "tx.wait", answer.kind # "throw")
       IN  cur' = IF answer.kind = "throw" THEN Throw(c, "Error", "confirm")
                  ELSE IF ReceiptFailed(answer)
                       THEN Throw([c EXCEPT !.receipt = answer], "TradeError", "confirm")
                       ELSE [c EXCEPT !.receipt = answer, !.pc = "record"]
    /\ UNCHANGED <<wallets, transactions, broadcast, attempts, ledger0>>
    /\ UNCHANGED storeVars
    /\ UNCHANGED frontVars

\* await recordTransaction({...}), then the return of the result
RecordTransaction(inserted) ==
    /\ cur.pc = "record"
    /\ LET c == Log(cur, "transactions.insert", inserted)
       IN  /\ cur' = IF inserted
                     THEN [c EXCEPT !.pc = "returned",
                                    !.result = [hash |-> cur.attempt, symbol |-> cur.symbol,
                                                amount |-> RecordedAmount(cur),
                                                counter |-> IF cur.action = "buy" THEN cur.amount
                                                            ELSE CounterAmount("sell", cur.quote, cur.decimals),
                                                priceUsd |-> cur.priceUsd]]
                     ELSE Throw(c, "PostgrestError", "record")
           /\ transactions' = IF inserted
                              THEN InsertTransaction(transactions,
                                                     TradeRecord(cur, RecordedAmount(cur), cur.action))
                              ELSE transactions
    /\ UNCHANGED <<wallets, broadcast, attempts, ledger0>>
    /\ UNCHANGED storeVars
    /\ UNCHANGED frontVars

Next ==
    \/ \E u \in Users, action \in Actions, token \in TokenAddresses, amount \in Amounts :
          CallTrade(u, action, token, amount)
    \/ \E selectOk \in BOOLEAN : GetSigner(selectOk)
    \/ \E dec \in DecimalsAnswers, sym \in SymbolAnswers, price \in PriceAnswers :
          DescribeAsset(dec, sym, price)
    \/ Normalize
    \/ \E answer \in QuoteAnswers : FetchQuote(answer)
    \/ \E answer \in AllowanceAnswers : ReadAllowance(answer)
    \/ \E accepted \in BOOLEAN : Approve(accepted)
    \/ \E confirmed \in BOOLEAN : ApproveWait(confirmed)
    \/ \E accepted \in BOOLEAN : SendTransaction(accepted)
    \/ \E answer \in WaitAnswers : WaitReceipt(answer)
    \/ \E inserted \in BOOLEAN : RecordTransaction(inserted)

Spec == Init /\ [][Next]_vars

(* ------- wallet.ts: ensureUserAndWallet / importUserWallet ------------ *)

\* The calls of different handlers interleave at their awaits.  A store call
\* that comes back with an error changes nothing, and neither function looks
\* at the error.

\* mutant: table wallets has no primary key
WalletsInsert_NoPrimaryKey(table, users, row) ==
    IF row.telegram_user_id \notin users THEN table ELSE table \cup {row}

\* insert into wallets: rejected when a row of that telegram_user_id exists
\* (primary key) or the user has no row in users (foreign key)
WalletsInsert(table, users, row) ==
    IF \/ \E r \in table : r.telegram_user_id = row.telegram_user_id
       \/ row.telegram_user_id \notin users
    THEN table
    ELSE table \cup {row}

\* upsert into wallets: the row replaces the one of that telegram_user_id;
\* rejected when the user has no row in users (foreign key)
WalletsUpsert(table, users, row) ==
    IF row.telegram_user_id \notin users THEN table
    ELSE {r \in table : r.telegram_user_id # row.telegram_user_id} \cup {row}

\* the selects by user on the table
WalletsView(table) == [u \in Users |-> SelectWallet(table, u)]

WalletCallEnded(h) == walletCalls[h].pc \in {"idle", "returned"}

\* a call of ensureUserAndWallet({ telegramUserId, username })
CallEnsureUserAndWallet(h, u) ==
    /\ WalletCallEnded(h)
    /\ walletCallsStarted < MaxWalletCalls
    /\ walletCallsStarted' = walletCallsStarted + 1
    /\ walletCalls' = [walletCalls EXCEPT ![h] =
            [NoWalletCall EXCEPT !.pc = "selectUser", !.op = "ensureUserAndWallet",
                                 !.telegramUserId = u]]
    /\ UNCHANGED <<wallets, usersTable, walletsTable>>
    /\ UNCHANGED tradeVars
    /\ UNCHANGED frontVars

\* const { data: user } = await supabase.from('users').select(...); without
\* a user, ethers.Wallet.createRandom() and encryptPrivateKey
EnsureSelectUser(h, ok, pk, iv) ==
    /\ walletCalls[h].pc = "selectUser"
    /\ LET c == walletCalls[h]
           user == ok /\ c.telegramUserId \in usersTable
       IN  walletCalls' = [walletCalls EXCEPT ![h] =
               IF ~user THEN [c EXCEPT !.pc = "insertUser", !.wallet = Some(WalletRow(pk, iv))]
               ELSE [c EXCEPT !.pc = "selectWallet"]]
    /\ UNCHANGED <<wallets, usersTable, walletsTable, walletCallsStarted>>
    /\ UNCHANGED tradeVars
    /\ UNCHANGED frontVars

\* await supabase.from('users').insert({ telegram_user_id, username })
EnsureInsertUser(h, ok) ==
    /\ walletCalls[h].pc = "insertUser"
    /\ usersTable' = IF ok THEN usersTable \cup {walletCalls[h].telegramUserId} ELSE usersTable
    /\ walletCalls' = [walletCalls EXCEPT ![h].pc = "insertWallet"]
    /\ UNCHANGED <<wallets, walletsTable, walletCallsStarted>>
    /\ UNCHANGED tradeVars
    /\ UNCHANGED frontVars

\* const { data: w } = await supabase.from('wallets').select(...); without a
\* wallet, ethers.Wallet.createRandom() and encryptPrivateKey
EnsureSelectWallet(h, ok, pk, iv) ==
    /\ walletCalls[h].pc = "selectWallet"
    /\ LET c == walletCalls[h]
           w == IF ok THEN SelectWallet(walletsTable, c.telegramUserId) ELSE None
       IN  walletCalls' = [walletCalls EXCEPT ![h] =
               IF ~IsSome(w) THEN [c EXCEPT !.pc = "insertWallet", !.wallet = Some(WalletRow(pk, iv))]
               ELSE [c EXCEPT !.pc = "returned", !.address = Get(w).address]]
    /\ UNCHANGED <<wallets, usersTable, walletsTable, walletCallsStarted>>
    /\ UNCHANGED tradeVars
    /\ UNCHANGED frontVars

\* await supabase.from('wallets').insert({ telegram_user_id, address,
\* encrypted_private_key }); return { address: wallet.address }
EnsureInsertWallet(h, ok) ==
    /\ walletCalls[h].pc = "insertWallet"
    /\ LET c == walletCalls[h]
           row == WalletsRow(c.telegramUserId, Get(c.wallet))
       IN  /\ walletsTable' = IF ok THEN WalletsInsert(walletsTable, usersTable, row)
                              ELSE walletsTable
           /\ walletCalls' = [walletCalls EXCEPT ![h] =
                   [c EXCEPT !.pc = "returned", !.address = Get(c.wallet).address]]
    /\ wallets' = WalletsView(walletsTable')
    /\ UNCHANGED <<usersTable, walletCallsStarted>>
    /\ UNCHANGED tradeVars
    /\ UNCHANGED frontVars

\* a call of importUserWallet({ telegramUserId }, pkHex): new ethers.Wallet
\* and encryptPrivateKey
CallImportUserWallet(h, u, pk, iv) ==
    /\ WalletCallEnded(h)
    /\ walletCallsStarted < MaxWalletCalls
    /\ walletCallsStarted' = walletCallsStarted + 1
    /\ walletCalls' = [walletCalls EXCEPT ![h] =
            [NoWalletCall EXCEPT !.pc = "upsertWallet", !.op = "importUserWallet",
                                 !.telegramUserId = u, !.wallet = Some(WalletRow(pk, iv))]]
    /\ UNCHANGED <<wallets, usersTable, walletsTable>>
    /\ UNCHANGED tradeVars
    /\ UNCHANGED frontVars

\* await supabase.from('wallets').upsert({ telegram_user_id, address,
\* encrypted_private_key }); return { address: wallet.address }
ImportUpsertWallet(h, ok) ==
    /\ walletCalls[h].pc = "upsertWallet"
    /\ LET c == walletCalls[h]
           row == WalletsRow(c.telegramUserId, Get(c.wallet))
       IN  /\ walletsTable' = IF ok THEN WalletsUpsert(walletsTable, usersTable, row)
                              ELSE walletsTable
           /\ walletCalls' = [walletCalls EXCEPT ![h] =
                   [c EXCEPT !.pc = "returned", !.address = Get(c.wallet).address]]
    /\ wallets' = WalletsView(walletsTable')
    /\ UNCHANGED <<usersTable, walletCallsStarted>>
    /\ UNCHANGED tradeVars
    /\ UNCHANGED frontVars

\* a store with no rows
WalletInit ==
    /\ wallets = [u \in Users |-> None]
    /\ transactions = <<>>
    /\ broadcast = <<>>
    /\ cur = Idle
    /\ attempts = 0
    /\ ledger0 = <<>>
    /\ usersTable = {}
    /\ walletsTable = {}
    /\ walletCalls = [h \in Handlers |-> NoWalletCall]
    /\ walletCallsStarted = 0
    /\ FrontInit

WalletNext ==
    \/ \E h \in Handlers, u \in Users : CallEnsureUserAndWallet(h, u)
    \/ \E h \in Handlers, ok \in BOOLEAN, pk \in PrivateKeys, iv \in Ivs : EnsureSelectUser(h, ok, pk, iv)
    \/ \E h \in Handlers, ok \in BOOLEAN : EnsureInsertUser(h, ok)
    \/ \E h \in Handlers, ok \in BOOLEAN, pk \in PrivateKeys, iv \in Ivs : EnsureSelectWallet(h, ok, pk, iv)
    \/ \E h \in Handlers, ok \in BOOLEAN : EnsureInsertWallet(h, ok)
    \/ \E h \in Handlers, u \in Users, pk \in PrivateKeys, iv \in Ivs : CallImportUserWallet(h, u, pk, iv)
    \/ \E h \in Handlers, ok \in BOOLEAN : ImportUpsertWallet(h, ok)

WalletSpec == WalletInit /\ [][WalletNext]_vars

(* ------------------ wallet.ts: the ledger and its query --------------- *)

\* what callers of recordTransaction pass
LedgerSymbols == {"DEGEN", "TOKEN"}
LedgerAmounts == {Amount(2, 0), Amount(1, 1)}
RecordInputs ==
    [telegramUserId : Users, symbol : LedgerSymbols, amount : LedgerAmounts,
     priceUsd : {None}, orderType : Actions]

\* the finest decimal place among the amounts of the rows
RECURSIVE Scale(_)
Scale(rows) ==
    IF rows = <<>> THEN 0
    ELSE LET rest == Scale(Tail(rows))
         IN  IF Head(rows).amount.frac > rest THEN Head(rows).amount.frac ELSE rest

\* sum(case when order_type = 'buy' then amount else -amount end), in units
\* of 10^-scale
RECURSIVE SumSigned(_, _)
SumSigned(rows, scale) ==
    IF rows = <<>> THEN 0
    ELSE LET r == Head(rows)
             units == r.amount.mant * Pow10(scale - r.amount.frac)
         IN  (IF r.order_type = "buy" THEN units ELSE 0 - units) + SumSigned(Tail(rows), scale)

\* mutant: the where clause is missing, every user's rows are summed
get_holdings_for_user_AllUsers(table, p_telegram_user_id) ==
    LET scale == Scale(table)
        Group(s) == SelectSeq(table, LAMBDA r : r.symbol = s)
    IN  {[token_address |-> s,
          net_amount |-> Reduce([mant |-> SumSigned(Group(s), scale), frac |-> scale])] :
            s \in {t \in {table[i].symbol : i \in 1..Len(table)} : SumSigned(Group(t), scale) > 0}}

\* mutant: having ... >= 0
get_holdings_for_user_ZeroListed(table, p_telegram_user_id) ==
    LET mine == SelectSeq(table, LAMBDA r : r.telegram_user_id = p_telegram_user_id)
        scale == Scale(mine)
        Group(s) == SelectSeq(mine, LAMBDA r : r.symbol = s)
    IN  {[token_address |-> s,
          net_amount |-> Reduce([mant |-> SumSigned(Group(s), scale), frac |-> scale])] :
            s \in {t \in {mine[i].symbol : i \in 1..Len(mine)} : SumSigned(Group(t), scale) >= 0}}

\* SQL function get_holdings_for_user: the user's rows grouped by symbol, the
\* groups whose signed sum is positive
get_holdings_for_user(table, p_telegram_user_id) ==
    LET mine == SelectSeq(table, LAMBDA r : r.telegram_user_id = p_telegram_user_id)
        scale == Scale(mine)
        Group(s) == SelectSeq(mine, LAMBDA r : r.symbol = s)
    IN  {[token_address |-> s,
          net_amount |-> Reduce([mant |-> SumSigned(Group(s), scale), frac |-> scale])] :
            s \in {t \in {mine[i].symbol : i \in 1..Len(mine)} : SumSigned(Group(t), scale) > 0}}

\* function recordTransaction called with `input`: the insert, which the
\* store accepts or answers with an error the function throws
CallRecordTransaction(input, inserted) ==
    /\ Len(transactions) < MaxLedger
    /\ transactions' =
           IF inserted
           THEN InsertTransaction(transactions,
                                  TradeRecord(input, input.amount, input.orderType))
           ELSE transactions
    /\ UNCHANGED <<wallets, broadcast, cur, attempts, ledger0>>
    /\ UNCHANGED storeVars
    /\ UNCHANGED frontVars

\* function getHoldingsForUser: the rpc, whose error it throws and whose data
\* it returns
CallGetHoldingsForUser(telegramUserId, ok) ==
    /\ holdings' = IF ok
                   THEN [pc |-> "returned", telegramUserId |-> telegramUserId,
                         data |-> get_holdings_for_user(transactions, telegramUserId)]
                   ELSE [pc |-> "thrown", telegramUserId |-> telegramUserId, data |-> {}]
    /\ ledger0' = transactions
    /\ UNCHANGED <<wallets, transactions, broadcast, cur, attempts>>
    /\ UNCHANGED storeVars
    /\ UNCHANGED <<botSessions, ctx, updates, logs, health, validated>>

LedgerInit == WalletInit

LedgerNext ==
    \/ \E input \in RecordInputs, inserted \in BOOLEAN : CallRecordTransaction(input, inserted)
    \/ \E u \in Users, ok \in BOOLEAN : CallGetHoldingsForUser(u, ok)

LedgerSpec == LedgerInit /\ [][LedgerNext]_vars

\* function getHoldings, from the rows the select returned: a map from symbol
\* to the signed sum of the amounts, every entry of which is returned
getHoldings(table, telegramUserId) ==
    LET data == SelectSeq(table, LAMBDA r : r.telegram_user_id = telegramUserId)
        scale == Scale(data)
        Group(s) == SelectSeq(data, LAMBDA r : r.symbol = s)
    IN  {[symbol |-> s,
          net_amount |-> Reduce([mant |-> SumSigned(Group(s), scale), frac |-> scale])] :
            s \in {data[i].symbol : i \in 1..Len(data)}}

\* a call of getHoldings(telegramUserId): the select, whose error it throws
CallGetHoldings(telegramUserId, ok) ==
    /\ holdings' = IF ok
                   THEN [pc |-> "returned", telegramUserId |-> telegramUserId,
                         data |-> getHoldings(transactions, telegramUserId)]
                   ELSE [pc |-> "thrown", telegramUserId |-> telegramUserId, data |-> {}]
    /\ ledger0' = transactions
    /\ UNCHANGED <<wallets, transactions, broadcast, cur, attempts>>
    /\ UNCHANGED storeVars
    /\ UNCHANGED <<botSessions, ctx, updates, logs, health, validated>>

HoldingsNext ==
    \/ \E input \in RecordInputs, inserted \in BOOLEAN : CallRecordTransaction(input, inserted)
    \/ \E u \in Users, ok \in BOOLEAN : CallGetHoldings(u, ok)

HoldingsSpec == LedgerInit /\ [][HoldingsNext]_vars

(* ------------------------ bot.ts: the front end ----------------------- *)

\* an error object: its class and its message
Err(name, message) == [name |-> name, message |-> message]

\* err?.isUserError: set by class UserError and its subclasses
IsUserError(err) == err.name \in UserErrors

\* what the Telegram API and the store throw
ReplyError == Err("GrammyError", "Call to 'sendMessage' failed")
StoreError == Err("PostgrestError", "connection timeout")

\* what buyToken / sellToken throw
TradeFailures ==
    {Err("TradeError", "No liquidity available for this trade"),
     Err("Error", "insufficient funds for gas * price + value"),
     Err("Error", "execution reverted")}

\* err.message.includes(keyword), for the keywords createErrorHandler looks for
Includes(message, keyword) ==
    keyword \in (CASE message = "No liquidity available for this trade" -> {"liquidity"}
                  [] message = "insufficient funds for gas * price + value" ->
                        {"insufficient funds", "gas"}
                  [] message = "connection timeout" -> {"timeout"}
                  [] message = "slippage too high: not enough liquidity" ->
                        {"slippage", "liquidity"}
                  [] OTHER -> {})

\* function createErrorHandler: the message it replies with
createErrorHandler(err) ==
    IF IsUserError(err) THEN err.message
    ELSE IF \E k \in {"no backend", "healthy", "timeout", "rate limit", "too many requests"} :
               Includes(err.message, k)
         THEN "Network is experiencing heavy traffic. Please try again in a few minutes."
    ELSE IF Includes(err.message, "insufficient funds") \/ Includes(err.message, "gas")
         THEN "Insufficient funds for this transaction. Please check your ETH balance."
    ELSE IF Includes(err.message, "slippage") \/ Includes(err.message, "price impact")
         THEN "Price moved too much during transaction. Please try again with a smaller amount."
    ELSE IF Includes(err.message, "liquidity")
         THEN "Insufficient liquidity for this trade. Try a smaller amount or different token."
    ELSE "An unexpected error occurred. Please try again or contact support if the issue persists."

\* an entry handed to the logger: its message, the error in it, and the
\* update reachable from it (a BotError holds the ctx it was thrown in)
LogEntry(msg, error, update) == [msg |-> msg, error |-> error, update |-> update]

\* the updates Telegram delivers
CallbackTokens == {"0xToken", "0xOther"}
CallbackData == {None} \cup {Some([action |-> a, address |-> t]) : a \in Actions, t \in CallbackTokens}
\* "buy 0.1", "SELL 0.1", "buy 0" and "hi"
Texts == {Text("buy", <<"0", ".", "1">>), Text("SELL", <<"0", ".", "1">>),
          Text("buy", <<"0">>), <<"hi">>}
ImportKeys == PrivateKeys \cup {0}
Updates ==
    {[NoUpdate EXCEPT !.kind = "callback", !.from = u, !.data = d] :
        u \in Users, d \in CallbackData}
    \cup {[NoUpdate EXCEPT !.kind = "text", !.from = u, !.text = t] : u \in Users, t \in Texts}
    \cup {[NoUpdate EXCEPT !.kind = "import", !.from = u, !.key = k] :
        u \in Users, k \in ImportKeys}

\* String.prototype.toLowerCase on the first word
ToLowerCase(verb) ==
    CASE verb = "SELL" -> "sell" [] verb = "Sell" -> "sell" [] verb = "BUY" -> "buy"
      [] OTHER -> verb

Digits == {"0", "1"}
Blank == " "

\* String.prototype.trim
RECURSIVE Trim(_)
Trim(str) ==
    IF str = <<>> THEN str
    ELSE IF Head(str) = Blank THEN Trim(Tail(str))
    ELSE IF str[Len(str)] = Blank THEN Trim(SubSeq(str, 1, Len(str) - 1))
    ELSE str

\* mutant: the angle brackets stay
sanitizeInput_KeepAngles(input) == Trim(input)

\* function sanitizeInput: input.trim().replace(/[<>]/g, '')
sanitizeInput(input) == SelectSeq(Trim(input), LAMBDA c : c \notin {"<", ">"})

\* the longest prefix of digits
RECURSIVE DigitPrefix(_)
DigitPrefix(str) ==
    IF str = <<>> \/ Head(str) \notin Digits THEN <<>>
    ELSE <<Head(str)>> \o DigitPrefix(Tail(str))

\* the number a string of digits denotes
RECURSIVE DigitsValue(_)
DigitsValue(digits) ==
    IF digits = <<>> THEN 0
    ELSE 10 * DigitsValue(SubSeq(digits, 1, Len(digits) - 1))
         + (IF digits[Len(digits)] = "1" THEN 1 ELSE 0)

\* parseFloat: the number denoted by the longest prefix that is a decimal
\* numeral (sign, digits, point, digits); NaN when there is none
parseFloat(str) ==
    LET negative == str # <<>> /\ Head(str) = "-"
        unsigned == IF negative THEN Tail(str) ELSE str
        int == DigitPrefix(unsigned)
        rest == SubSeq(unsigned, Len(int) + 1, Len(unsigned))
        frac == IF rest # <<>> /\ Head(rest) = "." THEN DigitPrefix(Tail(rest)) ELSE <<>>
        mant == DigitsValue(int \o frac)
    IN  IF int = <<>> /\ frac = <<>> THEN [nan |-> TRUE, value |-> NoAmount]
        ELSE [nan |-> FALSE,
              value |-> Reduce([mant |-> IF negative THEN -mant ELSE mant, frac |-> Len(frac)])]

\* [0-9]*\.?[0-9]+ anchored at both ends
IsDecimal(str) ==
    /\ str # <<>>
    /\ str[Len(str)] \in Digits
    /\ \A i \in 1..Len(str) : str[i] \in Digits \cup {"."}
    /\ Cardinality({i \in 1..Len(str) : str[i] = "."}) <= 1

\* mutant: the word is matched as written
TradeRegex_CaseSensitive(str) ==
    IF str = <<>> \/ Head(str) \notin Actions THEN None
    ELSE LET rest == Tail(str)
             amountStr == Trim(rest)
         IN  IF rest = <<>> \/ Head(rest) # Blank \/ rest[Len(rest)] = Blank
                \/ ~IsDecimal(amountStr)
             THEN None
             ELSE Some([action |-> Head(str), amountStr |-> amountStr])

\* str.match(/^(buy|sell)\s+([0-9]*\.?[0-9]+)$/i): the two groups
TradeRegex(str) ==
    IF str = <<>> \/ ToLowerCase(Head(str)) \notin Actions THEN None
    ELSE LET rest == Tail(str)
             amountStr == Trim(rest)
         IN  IF rest = <<>> \/ Head(rest) # Blank \/ rest[Len(rest)] = Blank
                \/ ~IsDecimal(amountStr)
             THEN None
             ELSE Some([action |-> Head(str), amountStr |-> amountStr])

\* the handler's own test: ctx.message.text.trim().match(...)
tradeMatch(text) == IsSome(TradeRegex(Trim(text)))

\* mutant: zero passes
validateAmount_ZeroAllowed(amount) ==
    LET num == parseFloat(amount)
    IN  IF num.nan
        THEN [isValid |-> FALSE, value |-> NoAmount, error |-> "Amount must be a valid number"]
        ELSE IF num.value.mant < 0
             THEN [isValid |-> FALSE, value |-> NoAmount, error |-> "Amount must be greater than 0"]
             ELSE [isValid |-> TRUE, value |-> num.value, error |-> ""]

\* function validateAmount: parseFloat, then the checks for a number and for
\* a positive one
validateAmount(amount) ==
    LET num == parseFloat(amount)
    IN  IF num.nan
        THEN [isValid |-> FALSE, value |-> NoAmount, error |-> "Amount must be a valid number"]
        ELSE IF num.value.mant <= 0
             THEN [isValid |-> FALSE, value |-> NoAmount, error |-> "Amount must be greater than 0"]
             ELSE [isValid |-> TRUE, value |-> num.value, error |-> ""]

\* function validateTradeCommand: ok is false where it throws a
\* ValidationError with the message `error`
validateTradeCommand(text) ==
    LET match == TradeRegex(sanitizeInput(text))
    IN  IF ~IsSome(match)
        THEN [ok |-> FALSE, action |-> "", amount |-> NoAmount,
              error |-> "Invalid trade format. Use: buy <amount> or sell <amount>"]
        ELSE LET validation == validateAmount(Get(match).amountStr)
             IN  IF ~validation.isValid
                 THEN [ok |-> FALSE, action |-> "", amount |-> NoAmount,
                       error |-> validation.error]
                 ELSE [ok |-> TRUE, action |-> ToLowerCase(Get(match).action),
                       amount |-> validation.value, error |-> ""]

\* function validatePrivateKey
validatePrivateKey(key) == key \in PrivateKeys

\* mutant: the action of the message is not compared with the pending one
ActionMatches_Any(action, pending) == TRUE

\* action !== pending.action
ActionMatches(action, pending) == action = pending.action

\* mutant: updates are handled as they arrive, while earlier ones are awaited
CanDispatch_Concurrent == TRUE

\* bot.start(): long polling hands the next update to the middleware once
\* the handling of the previous one has settled
CanDispatch == \A h \in Handlers : ctx[h].pc = "idle"

\* the slot a new update is handled in
FreeSlot == CHOOSE h \in Handlers : ctx[h].pc = "idle"

Reply(c, message) == [c EXCEPT !.replies = Append(@, message)]

\* the catch block of a handler is entered with err
Catch(c, err) == [c EXCEPT !.pc = "catchReply", !.err = Some(err)]

\* what the catch block of the handler of `kind` logs before it replies
CatchLog(kind, err) ==
    CASE kind = "callback" -> {LogEntry("Callback query failed", Some(err), None)}
      [] kind = "import" -> IF IsUserError(err) THEN {}
                            ELSE {LogEntry("Import wallet failed", Some(err), None)}
      [] OTHER -> IF IsUserError(err) THEN {}
                  ELSE {LogEntry("Message handler failed", Some(err), None)}

\* what the catch block of the handler of `kind` replies
CatchMessage(kind, err) ==
    CASE kind = "callback" -> "An error occurred"
      [] kind = "import" ->
            IF IsUserError(err) THEN err.message
            ELSE "Failed to import wallet. Please check your private key and try again."
      [] OTHER -> IF IsUserError(err) THEN err.message
                  ELSE "An error occurred. Please try again."

\* bot.api.config.use: a failing call of the Telegram API is logged and rethrown
ApiErrorLog == {LogEntry("Telegram API error", Some(ReplyError), None)}

botFrame == <<transactions, broadcast, cur, attempts, ledger0, walletCalls, walletCallsStarted,
              holdings, health, validated>>

\* long polling delivers an update to the middleware chain
Dispatch(h, update) ==
    /\ CanDispatch
    /\ ctx[h].pc = "idle"
    /\ h = FreeSlot
    /\ updates < MaxUpdates
    /\ updates' = updates + 1
    /\ ctx' = [ctx EXCEPT ![h] = [NoCtx EXCEPT !.pc = "loadSession", !.update = update]]
    /\ logs' = {}
    /\ UNCHANGED <<wallets, usersTable, walletsTable, botSessions>>
    /\ UNCHANGED botFrame

\* createSessionStore, before next(): the select on bot_sessions
LoadSession(h, ok) ==
    /\ ctx[h].pc = "loadSession"
    /\ LET c == ctx[h]
           loaded == IF ok THEN Coalesce(botSessions[c.update.from], EmptySession)
                     ELSE EmptySession
       IN  /\ ctx' = [ctx EXCEPT ![h] = [c EXCEPT !.pc = c.update.kind, !.session0 = loaded,
                                                  !.session = loaded]]
           /\ logs' = IF ok THEN logs
                      ELSE logs \cup {LogEntry("Session load error", Some(StoreError), None)}
    /\ UNCHANGED <<wallets, usersTable, walletsTable, botSessions, updates>>
    /\ UNCHANGED botFrame

\* bot.on('callback_query:data')
HandleCallback(h, replyOk) ==
    /\ ctx[h].pc = "callback"
    /\ LET c == ctx[h]
           m == c.update.data
       IN  IF ~replyOk
           THEN /\ ctx' = [ctx EXCEPT ![h] = Catch(c, ReplyError)]
                /\ logs' = logs \cup ApiErrorLog \cup CatchLog("callback", ReplyError)
           ELSE IF ~IsSome(m)
           THEN /\ ctx' = [ctx EXCEPT ![h] = [Reply(c, "Invalid action") EXCEPT !.pc = "saveSession"]]
                /\ logs' = logs
           ELSE /\ ctx' = [ctx EXCEPT ![h] =
                        [Reply(c, IF Get(m).action = "buy" THEN "Buy Token: How much ETH to spend?"
                                  ELSE "Sell Token: How much to sell?")
                            EXCEPT !.pc = "saveSession", !.session.pendingAction = m]]
                /\ logs' = logs \cup {LogEntry("User action logged", None, None)}
    /\ UNCHANGED <<wallets, usersTable, walletsTable, botSessions, updates>>
    /\ UNCHANGED botFrame

\* bot.on('message:text'), up to the call of buyToken / sellToken
HandleText(h, replyOk) ==
    /\ ctx[h].pc = "text"
    /\ LET c == ctx[h]
           text == c.update.text
           pending == c.session.pendingAction
           v == validateTradeCommand(text)
           Answer(message) == IF replyOk THEN [Reply(c, message) EXCEPT !.pc = "saveSession"]
                              ELSE Catch(c, ReplyError)
           next == IF ~tradeMatch(text) THEN [c EXCEPT !.pc = "saveSession"]
                   ELSE IF ~IsSome(pending)
                        THEN Answer("Please /scan a token and tap Buy/Sell first.")
                   ELSE IF ~v.ok THEN Catch(c, Err("ValidationError", v.error))
                   ELSE IF ~ActionMatches(v.action, Get(pending))
                        THEN Answer("Action mismatch.")
                   ELSE [c EXCEPT !.pc = "trading",
                                  !.call = Some([telegramUserId |-> c.update.from,
                                                 action |-> Get(pending).action,
                                                 tokenAddress |-> Get(pending).address,
                                                 amount |-> v.amount])]
       IN  /\ ctx' = [ctx EXCEPT ![h] = next]
           /\ logs' = IF ~IsSome(next.err) THEN logs
                      ELSE IF Get(next.err) = ReplyError
                           THEN logs \cup ApiErrorLog \cup CatchLog("text", ReplyError)
                      ELSE logs \cup CatchLog("text", Get(next.err))
    /\ UNCHANGED <<wallets, usersTable, walletsTable, botSessions, updates>>
    /\ UNCHANGED botFrame

\* await buyToken(...) / await sellToken(...), then logTradeExecution
Trade(h, failure) ==
    /\ ctx[h].pc = "trading"
    /\ LET c == ctx[h]
       IN  IF IsSome(failure)
           THEN /\ ctx' = [ctx EXCEPT ![h] = Catch(c, Get(failure))]
                /\ logs' = logs \cup CatchLog("text", Get(failure))
           ELSE /\ ctx' = [ctx EXCEPT ![h] = [c EXCEPT !.pc = "holdings",
                                                       !.tradeResult = Some("0xhash")]]
                /\ logs' = logs \cup {LogEntry("Trade execution logged", None, None)}
    /\ UNCHANGED <<wallets, usersTable, walletsTable, botSessions, updates>>
    /\ UNCHANGED botFrame

\* await getHoldingsForUser(...) for the confirmation message
TradeHoldings(h, ok) ==
    /\ ctx[h].pc = "holdings"
    /\ LET c == ctx[h]
       IN  IF ok
           THEN /\ ctx' = [ctx EXCEPT ![h] = [c EXCEPT !.pc = "confirm"]]
                /\ logs' = logs
           ELSE /\ ctx' = [ctx EXCEPT ![h] = Catch(c, StoreError)]
                /\ logs' = logs \cup CatchLog("text", StoreError)
    /\ UNCHANGED <<wallets, usersTable, walletsTable, botSessions, updates>>
    /\ UNCHANGED botFrame

\* await ctx.reply(buyMessage / sellMessage), then the pending action is cleared
TradeConfirm(h, replyOk) ==
    /\ ctx[h].pc = "confirm"
    /\ LET c == ctx[h]
       IN  IF replyOk
           THEN /\ ctx' = [ctx EXCEPT ![h] =
                        [Reply(c, IF Get(c.call).action = "buy" THEN "Buy Successful!"
                                  ELSE "Sell Successful!")
                            EXCEPT !.pc = "saveSession", !.session.pendingAction = None]]
                /\ logs' = logs
           ELSE /\ ctx' = [ctx EXCEPT ![h] = Catch(c, ReplyError)]
                /\ logs' = logs \cup ApiErrorLog \cup CatchLog("text", ReplyError)
    /\ UNCHANGED <<wallets, usersTable, walletsTable, botSessions, updates>>
    /\ UNCHANGED botFrame

\* bot.command('import'), up to the call of importUserWallet
HandleImport(h) ==
    /\ ctx[h].pc = "import"
    /\ LET c == ctx[h]
       IN  /\ ctx' = [ctx EXCEPT ![h] =
                    IF validatePrivateKey(c.update.key) THEN [c EXCEPT !.pc = "importing"]
                    ELSE Catch(c, Err("ValidationError", "Invalid private key format."))]
           /\ logs' = logs \cup {LogEntry("User action logged", None, None)}
    /\ UNCHANGED <<wallets, usersTable, walletsTable, botSessions, updates>>
    /\ UNCHANGED botFrame

\* await importUserWallet({ telegramUserId: userId }, privateKey)
ImportWallet(h, iv, ok) ==
    /\ ctx[h].pc = "importing"
    /\ LET c == ctx[h]
           row == WalletsRow(c.update.from, WalletRow(c.update.key, iv))
       IN  /\ walletsTable' = IF ok THEN WalletsUpsert(walletsTable, usersTable, row)
                              ELSE walletsTable
           /\ ctx' = [ctx EXCEPT ![h] = [c EXCEPT !.pc = "imported"]]
    /\ wallets' = WalletsView(walletsTable')
    /\ UNCHANGED <<usersTable, botSessions, updates, logs>>
    /\ UNCHANGED botFrame

\* await ctx.reply('Wallet Imported Successfully! ...')
ImportConfirm(h, replyOk) ==
    /\ ctx[h].pc = "imported"
    /\ LET c == ctx[h]
       IN  IF replyOk
           THEN /\ ctx' = [ctx EXCEPT ![h] =
                        [Reply(c, "Wallet Imported Successfully!") EXCEPT !.pc = "saveSession"]]
                /\ logs' = logs
           ELSE /\ ctx' = [ctx EXCEPT ![h] = Catch(c, ReplyError)]
                /\ logs' = logs \cup ApiErrorLog \cup CatchLog("import", ReplyError)
    /\ UNCHANGED <<wallets, usersTable, walletsTable, botSessions, updates>>
    /\ UNCHANGED botFrame

\* the reply of a catch block; when it throws, the error leaves the handler
\* and the session middleware and reaches bot.catch, which logs it
CatchReply(h, replyOk) ==
    /\ ctx[h].pc = "catchReply"
    /\ LET c == ctx[h]
       IN  IF replyOk
           THEN /\ ctx' = [ctx EXCEPT ![h] =
                        [Reply(c, CatchMessage(c.update.kind, Get(c.err)))
                            EXCEPT !.pc = "saveSession"]]
                /\ logs' = logs
           ELSE /\ ctx' = [ctx EXCEPT ![h] = NoCtx]
                /\ logs' = logs \cup ApiErrorLog
                                 \cup {LogEntry("Bot error", Some(ReplyError), Some(c.update))}
    /\ UNCHANGED <<wallets, usersTable, walletsTable, botSessions, updates>>
    /\ UNCHANGED botFrame

\* createSessionStore, after next(): the upsert into bot_sessions
SaveSession(h, ok) ==
    /\ ctx[h].pc = "saveSession"
    /\ LET c == ctx[h]
       IN  /\ botSessions' = IF ok THEN [botSessions EXCEPT ![c.update.from] = Some(c.session)]
                             ELSE botSessions
           /\ logs' = IF ok THEN logs
                      ELSE logs \cup {LogEntry("Session save error", Some(StoreError), None)}
           /\ ctx' = [ctx EXCEPT ![h] = NoCtx]
    /\ UNCHANGED <<wallets, usersTable, walletsTable, updates>>
    /\ UNCHANGED botFrame

\* user 1 has started the bot and owns a wallet, user 2 has not
BotInit ==
    /\ wallets = [u \in Users |-> IF u = 1 THEN Some(WalletRow(1, 0)) ELSE None]
    /\ transactions = <<>>
    /\ broadcast = <<>>
    /\ cur = Idle
    /\ attempts = 0
    /\ ledger0 = <<>>
    /\ usersTable = {1}
    /\ walletsTable = {WalletsRow(1, WalletRow(1, 0))}
    /\ walletCalls = [h \in Handlers |-> NoWalletCall]
    /\ walletCallsStarted = 0
    /\ FrontInit

BotNext ==
    \/ \E h \in Handlers, update \in Updates : Dispatch(h, update)
    \/ \E h \in Handlers, ok \in BOOLEAN : LoadSession(h, ok)
    \/ \E h \in Handlers, replyOk \in BOOLEAN : HandleCallback(h, replyOk)
    \/ \E h \in Handlers, replyOk \in BOOLEAN : HandleText(h, replyOk)
    \/ \E h \in Handlers, failure \in {None} \cup {Some(e) : e \in TradeFailures} : Trade(h, failure)
    \/ \E h \in Handlers, ok \in BOOLEAN : TradeHoldings(h, ok)
    \/ \E h \in Handlers, replyOk \in BOOLEAN : TradeConfirm(h, replyOk)
    \/ \E h \in Handlers : HandleImport(h)
    \/ \E h \in Handlers, iv \in Ivs, ok \in BOOLEAN : ImportWallet(h, iv, ok)
    \/ \E h \in Handlers, replyOk \in BOOLEAN : ImportConfirm(h, replyOk)
    \/ \E h \in Handlers, replyOk \in BOOLEAN : CatchReply(h, replyOk)
    \/ \E h \in Handlers, ok \in BOOLEAN : SaveSession(h, ok)

BotSpec == BotInit /\ [][BotNext]_vars

(* ---------------- sessionStore.ts under concurrent updates ------------ *)

\* the updates whose handlers read or write the pending action
SessionUpdates == {u \in Updates : u.kind \in {"callback", "text"}}

\* the middleware chain is entered for an update while an earlier update is
\* still being handled (a runner or a webhook instead of long polling)
DispatchConcurrently(h, update) ==
    /\ ctx[h].pc = "idle"
    /\ h = FreeSlot
    /\ updates < MaxUpdates
    /\ updates' = updates + 1
    /\ ctx' = [ctx EXCEPT ![h] = [NoCtx EXCEPT !.pc = "loadSession", !.update = update]]
    /\ logs' = {}
    /\ UNCHANGED <<wallets, usersTable, walletsTable, botSessions>>
    /\ UNCHANGED botFrame

SessionNext ==
    \/ \E h \in Handlers, update \in SessionUpdates : DispatchConcurrently(h, update)
    \/ \E h \in Handlers : LoadSession(h, TRUE)
    \/ \E h \in Handlers, replyOk \in BOOLEAN : HandleCallback(h, replyOk)
    \/ \E h \in Handlers, replyOk \in BOOLEAN : HandleText(h, replyOk)
    \/ \E h \in Handlers, failure \in {None} \cup {Some(e) : e \in TradeFailures} : Trade(h, failure)
    \/ \E h \in Handlers, ok \in BOOLEAN : TradeHoldings(h, ok)
    \/ \E h \in Handlers, replyOk \in BOOLEAN : TradeConfirm(h, replyOk)
    \/ \E h \in Handlers, replyOk \in BOOLEAN : CatchReply(h, replyOk)
    \/ \E h \in Handlers : SaveSession(h, TRUE)

SessionSpec == BotInit /\ [][SessionNext]_vars

(* --------------------- health.ts: the health check -------------------- *)

\* interface ServiceHealth: its status and its error, if any
ServiceHealth(status, error) == [status |-> status, error |-> error]

\* an element of what Promise.allSettled resolves to
Fulfilled(value) == [status |-> "fulfilled", value |-> Some(value)]
Rejected == [status |-> "rejected", value |-> None]

\* the statements of a catch block: logger.error, then the unhealthy result; an
\* exception of the logger leaves the function
CatchUnhealthy(message, logOk) ==
    IF logOk THEN Fulfilled(ServiceHealth("unhealthy", Some(message))) ELSE Rejected

\* what the select on users gives
DatabaseResponses == {"rows", "error", "throws"}
checkDatabase(resp, logOk) ==
    CASE resp = "rows"   -> Fulfilled(ServiceHealth("healthy", None))
      [] resp = "error"  -> IF logOk
                            THEN Fulfilled(ServiceHealth("unhealthy", Some("connection timeout")))
                            ELSE Rejected
      [] resp = "throws" -> CatchUnhealthy("fetch failed", logOk)

\* what provider.getBlockNumber gives
RPCResponses == {"block", "invalid", "throws"}
checkRPC(resp, logOk) ==
    CASE resp = "block"   -> Fulfilled(ServiceHealth("healthy", None))
      [] resp = "invalid" -> Fulfilled(ServiceHealth("degraded", Some("Invalid block number received")))
      [] resp = "throws"  -> CatchUnhealthy("network error", logOk)

\* what the quote request gives
ZeroXResponses == {"liquidity", "http", "noLiquidity", "throws"}
checkZeroX(resp, logOk) ==
    CASE resp = "liquidity"   -> Fulfilled(ServiceHealth("healthy", None))
      [] resp = "http"        -> Fulfilled(ServiceHealth("degraded", Some("HTTP 500")))
      [] resp = "noLiquidity" -> Fulfilled(ServiceHealth("degraded", Some("No liquidity available")))
      [] resp = "throws"      -> CatchUnhealthy("fetch failed", logOk)

\* what the eth_blockNumber request gives
AlchemyResponses == {"result", "http", "error", "throws"}
checkAlchemy(resp, logOk) ==
    CASE resp = "result" -> Fulfilled(ServiceHealth("healthy", None))
      [] resp = "http"   -> Fulfilled(ServiceHealth("degraded", Some("HTTP 500")))
      [] resp = "error"  -> Fulfilled(ServiceHealth("unhealthy", Some("rate limited")))
      [] resp = "throws" -> CatchUnhealthy("fetch failed", logOk)

ServiceNames == {"database", "rpc", "zeroX", "alchemy"}

\* the ternaries of checkHealth: the value of a fulfilled check, the
\* unhealthy stand-in of a rejected one
ServiceOf(settled, error) ==
    IF settled.status = "fulfilled" THEN Get(settled.value)
    ELSE ServiceHealth("unhealthy", Some(error))

\* the order of the tests is that of the code
OverallStatus_DegradedFirst(services) ==
    IF \A n \in ServiceNames : services[n].status = "healthy" THEN "healthy"
    ELSE IF \E n \in ServiceNames : services[n].status = "degraded" THEN "degraded"
    ELSE "unhealthy"

OverallStatus(services) ==
    IF \A n \in ServiceNames : services[n].status = "healthy" THEN "healthy"
    ELSE IF \E n \in ServiceNames : services[n].status = "unhealthy" THEN "unhealthy"
    ELSE "degraded"

\* function checkHealth, given how the four checks settled; timestamp, uptime
\* and version are left out
checkHealth(settled) ==
    LET services == [database |-> ServiceOf(settled.database, "Database check failed"),
                     rpc      |-> ServiceOf(settled.rpc, "RPC check failed"),
                     zeroX    |-> ServiceOf(settled.zeroX, "0x API check failed"),
                     alchemy  |-> ServiceOf(settled.alchemy, "Alchemy API check failed")]
    IN  [status |-> OverallStatus(services), services |-> services]

\* a call of checkHealth: each dependency answers in one of its ways, and the
\* logger works or throws
CallCheckHealth(database, rpc, zeroX, alchemy, logOk) ==
    /\ LET settled == [database |-> checkDatabase(database, logOk),
                       rpc      |-> checkRPC(rpc, logOk),
                       zeroX    |-> checkZeroX(zeroX, logOk),
                       alchemy  |-> checkAlchemy(alchemy, logOk)]
       IN  health' = Some([settled |-> settled, returned |-> checkHealth(settled)])
    /\ UNCHANGED <<wallets, holdings, botSessions, ctx, updates, logs, validated>>
    /\ UNCHANGED tradeVars
    /\ UNCHANGED storeVars

HealthNext ==
    \E database \in DatabaseResponses, rpc \in RPCResponses, zeroX \in ZeroXResponses,
       alchemy \in AlchemyResponses, logOk \in BOOLEAN :
        CallCheckHealth(database, rpc, zeroX, alchemy, logOk)

HealthSpec == WalletInit /\ [][HealthNext]_vars

(* ------------------ validation.ts: validateTradeCommand -------------- *)

\* the texts validateTradeCommand is called with: blanks, a word, blanks, an
\* opening bracket, some characters, a closing bracket, blanks
Words == {"buy", "BUY", "sell", "Sell", "hi"}
Blanks == {<<>>, <<Blank>>, <<Blank, Blank>>}
Numerals == {<<>>, <<"0">>, <<"1">>, <<"0", ".", "1">>, <<".", "1">>, <<"1", ".">>,
             <<"0", ".", "0">>, <<"1", ".", "0", ".", "1">>, <<"-", "1">>, <<"1", "hi">>}
TradeTexts ==
    {lead \o <<word>> \o gap \o open \o numeral \o close \o trail :
        lead \in {<<>>, <<Blank>>}, word \in Words, gap \in Blanks,
        open \in {<<>>, <<"<">>}, numeral \in Numerals, close \in {<<>>, <<">">>},
        trail \in {<<>>, <<Blank>>}}

\* a call of validateTradeCommand(text)
CallValidateTradeCommand(text) ==
    /\ validated' = Some([text |-> text, returned |-> validateTradeCommand(text)])
    /\ UNCHANGED <<wallets, holdings, botSessions, ctx, updates, logs, health>>
    /\ UNCHANGED tradeVars
    /\ UNCHANGED storeVars

ValidationNext == \E text \in TradeTexts : CallValidateTradeCommand(text)

ValidationSpec == WalletInit /\ [][ValidationNext]_vars

(* ================================ claims =============================== *)

\* the rows the invocation in flight has added to table transactions
NewRows == SubSeq(transactions, Len(ledger0) + 1, Len(transactions))

\* the calls the invocation in flight has made so far
Calls(call) == {i \in 1..Len(cur.events) : cur.events[i].call = call}
Called(call) == Calls(call) # {}

Sent(kind) == {i \in 1..Len(broadcast) : broadcast[i].kind = kind}

\* the wait for the swap receipt returned something other than a success
SwapReceiptNotSuccess ==
    \/ cur.receipt.kind = "null"
    \/ cur.receipt.kind = "receipt" /\ cur.receipt.status # StatusSuccess

\* the wait for the swap receipt returned a receipt with success status
SwapReceiptSuccess ==
    cur.receipt.kind = "receipt" /\ cur.receipt.status = StatusSuccess

\* C1: when the swap receipt reports a status other than success (a missing
\* receipt included), the invocation fails with a TradeError and the
\* transactions table is the same as before the invocation.
C1_NoPartialWrites ==
    SwapReceiptNotSuccess =>
        /\ cur.pc = "thrown"
        /\ cur.err = "TradeError"
        /\ transactions = ledger0

C1_Witness ==
    /\ cur.receipt.kind = "null"
    /\ cur.pc = "thrown"
    /\ Called("tx.wait")
    /\ ledger0 # <<>>

\* C2: a Trade Record is written only by an invocation that has broadcast
\* its swap and received a receipt with success status for it: the table
\* changes in no other step, and while the invocation has not sent the swap,
\* still awaits the receipt or got a failed one, it has added no row.
C2_ConfirmedSwap ==
    /\ Sent("swap") # {}
    /\ Called("tx.wait")
    /\ SwapReceiptSuccess

C2_RecordOnlyAfterSuccess ==
    /\ [](NewRows # <<>> => C2_ConfirmedSwap)
    /\ [][transactions' # transactions =>
            /\ C2_ConfirmedSwap
            /\ cur.pc = "record"
            /\ Len(transactions') = Len(transactions) + 1
            /\ SubSeq(transactions', 1, Len(transactions)) = transactions
            /\ transactions'[Len(transactions')].telegram_user_id = cur.telegramUserId
            /\ transactions'[Len(transactions')].order_type = cur.action]_vars

C2_Witness ==
    /\ cur.pc = "returned"
    /\ Len(NewRows) = 1
    /\ ledger0 # <<>>

\* C3: for every invocation whose swap receipt reports success, exactly one
\* Trade Record of that trade is in the ledger once the invocation has
\* ended, whatever the outcome of the ledger write.
C3_ExactlyOneRecord ==
    (SwapReceiptSuccess /\ cur.pc \in {"returned", "thrown"}) => Len(NewRows) = 1

\* the steps of the pipeline, in order, and the step each call belongs to
StepRank(step) ==
    CASE step = "resolve" -> 1 [] step = "describe" -> 2 [] step = "normalize" -> 3
      [] step = "quote" -> 4 [] step = "allowance" -> 5 [] step = "submit" -> 6
      [] step = "confirm" -> 7 [] step = "record" -> 8 [] OTHER -> 0

CallRank(call) ==
    CASE call = "wallets.select" -> 1
      [] call \in {"decimals", "symbol", "getUsdPrice"} -> 2
      [] call = "fetchQuote" -> 4
      [] call \in {"allowance", "approve", "approve.wait"} -> 5
      [] call = "sendTransaction" -> 6
      [] call = "tx.wait" -> 7
      [] call = "transactions.insert" -> 8
      [] OTHER -> 0

\* a call that was not answered, the best-effort symbol read aside
FailedCalls == {i \in 1..Len(cur.events) : ~cur.events[i].ok /\ cur.events[i].call # "symbol"}

\* C4: when resolve, describe-asset, normalize, quote, allowance, submit or
\* confirm fails, no later step of that invocation is executed and no ledger
\* write happens: a call that fails ends the invocation, every call made
\* belongs to the failing step or an earlier one, and nothing follows the
\* failure but a new invocation.
C4_AbortOnFirstFailure ==
    /\ [](\A i \in FailedCalls :
             /\ cur.pc = "thrown"
             /\ \A j \in 1..Len(cur.events) :
                    CallRank(cur.events[j].call) <= CallRank(cur.events[i].call)
             /\ (CallRank(cur.events[i].call) <= 7 => transactions = ledger0))
    /\ []((cur.pc = "thrown" /\ StepRank(cur.failedAt) \in 1..7) =>
             /\ \A i \in 1..Len(cur.events) : CallRank(cur.events[i].call) <= StepRank(cur.failedAt)
             /\ transactions = ledger0)
    /\ [][cur.pc = "thrown" =>
             /\ cur'.pc = "getSigner"
             /\ cur'.attempt = cur.attempt + 1
             /\ transactions' = transactions]_vars

C4_Witness ==
    /\ cur.pc = "thrown"
    /\ cur.failedAt = "allowance"
    /\ Called("approve.wait")
    /\ Sent("approve") # {}

\* C5: when the quote response reports liquidityAvailable false, the
\* invocation fails with the TradeError of fetchQuote and broadcasts no
\* transaction, neither an approval nor a swap.
C5_NoLiquidity ==
    (cur.quoteAnswer = "json" /\ ~cur.quote.liquidityAvailable) =>
        /\ cur.pc = "thrown"
        /\ cur.err = "TradeError"
        /\ cur.failedAt = "quote"
        /\ broadcast = <<>>
        /\ ~Called("allowance") /\ ~Called("approve") /\ ~Called("sendTransaction")

C5_Witness ==
    /\ cur.quoteAnswer = "json"
    /\ cur.quote = NoLiquidityWithPayload
    /\ cur.action = "sell"
    /\ cur.pc = "thrown"

\* C6: fetchQuote fails with a NetworkError on a non-success HTTP status.
C6_NetworkErrorOnHttpStatus ==
    cur.quoteAnswer = "notOk" => (cur.pc = "thrown" /\ cur.err = "NetworkError")

\* C7: buyToken and sellToken fail with a typed error (a UserError subclass
\* or a NetworkError) on any pipeline step failure.
C7_TypedErrors ==
    cur.pc = "thrown" => cur.err \in TypedErrors

\* the normalized (raw) amount of the invocation is zero or negative
RawNotPositive == cur.raw.ok /\ cur.raw.mant <= 0

AllowanceRead == IsSome(cur.current)

\* C9: ensureAllowanceIfNeeded submits no approval transaction when the
\* current allowance is at least the required amount, and exactly one, for
\* the required amount and that spender, when it is smaller.
C9_AllowanceShortCircuit ==
    AllowanceRead =>
        IF Get(cur.current) >= cur.required
        THEN ~Called("approve") /\ Sent("approve") = {} /\ cur.pc # "approve"
        ELSE /\ (cur.pc = "approve" <=> ~Called("approve"))
             /\ Cardinality(Calls("approve")) <= 1
             /\ Cardinality(Sent("approve")) <= 1
             /\ (cur.pc \in {"approveWait", "sendTransaction", "wait", "record", "returned"}
                    => Cardinality(Sent("approve")) = 1)
             /\ \A i \in Sent("approve") :
                    /\ broadcast[i].spender = cur.spender
                    /\ broadcast[i].amount = cur.required
                    /\ broadcast[i].from = cur.signer

C9_Witness ==
    /\ AllowanceRead
    /\ Get(cur.current) = cur.required
    /\ cur.pc = "returned"
    /\ Sent("approve") = {}

\* C10: on a sell whose current allowance is below the required amount, the
\* approval is submitted and its confirmation awaited before the swap
\* transaction is sent.
C10_ApprovalBeforeSwap ==
    (AllowanceRead /\ Get(cur.current) < cur.required) =>
        \A k \in Calls("sendTransaction") :
            \E i, j \in 1..(k - 1) :
                /\ i < j
                /\ cur.events[i] = [call |-> "approve", ok |-> TRUE]
                /\ cur.events[j] = [call |-> "approve.wait", ok |-> TRUE]

C10_Witness ==
    /\ AllowanceRead
    /\ Get(cur.current) < cur.required
    /\ Called("sendTransaction")
    /\ Sent("approve") # {} /\ Sent("swap") # {}

\* the approval was rejected at submission, or its confirmation wait failed
ApprovalFailed ==
    \E i \in 1..Len(cur.events) :
        cur.events[i] \in {[call |-> "approve", ok |-> FALSE], [call |-> "approve.wait", ok |-> FALSE]}

\* C11: when the approval transaction of a sell is rejected at submission or
\* its confirmation wait fails, sellToken fails, the swap transaction is never
\* sent and no Trade Record is written.
C11_ApprovalFailureAborts ==
    ApprovalFailed =>
        /\ cur.action = "sell"
        /\ cur.pc = "thrown"
        /\ ~Called("sendTransaction")
        /\ Sent("swap") = {}
        /\ ~Called("transactions.insert")
        /\ transactions = ledger0

C11_Witness ==
    /\ cur.events # <<>>
    /\ cur.events[Len(cur.events)] = [call |-> "approve.wait", ok |-> FALSE]
    /\ cur.pc = "thrown"
    /\ ledger0 # <<>>

\* C12: whenever the swap transaction of a sell is sent, the allowance has
\* been read as at least the required amount, or an approval has been
\* confirmed, earlier in the same invocation, whatever the quote response.
C12_SwapOnlyWithAllowance ==
    cur.action = "sell" =>
        \A k \in Calls("sendTransaction") :
            \/ \E i \in 1..(k - 1) :
                   /\ cur.events[i] = [call |-> "allowance", ok |-> TRUE]
                   /\ AllowanceRead /\ Get(cur.current) >= cur.required
            \/ \E j \in 1..(k - 1) : cur.events[j] = [call |-> "approve.wait", ok |-> TRUE]

\* C13: no execution of buyToken reads an allowance or submits an approval,
\* so a buy broadcasts at most the one swap transaction.
C13_BuyNeverTouchesAllowance ==
    cur.action = "buy" =>
        /\ ~Called("allowance") /\ ~Called("approve") /\ ~Called("approve.wait")
        /\ cur.pc \notin {"allowance", "approve", "approveWait"}
        /\ Sent("approve") = {}
        /\ Len(broadcast) <= 1
        /\ \A i \in 1..Len(broadcast) : broadcast[i].kind = "swap"

C13_Witness ==
    /\ cur.action = "buy"
    /\ IsSome(cur.quote.allowanceTarget)
    /\ cur.pc = "returned"
    /\ Len(broadcast) = 1

\* the invocation has looked up the wallet of a user who has none
NoWalletFound ==
    /\ cur.telegramUserId \in Users
    /\ Called("wallets.select")
    /\ wallets[cur.telegramUserId] = None

\* C14: when no wallet exists for the user, getSignerForUser fails with a
\* WalletError and the buyToken / sellToken invocation ends there: the store
\* lookup is the only call it has made, nothing is broadcast and the ledger
\* is untouched.
C14_WalletNotFound ==
    NoWalletFound =>
        /\ cur.pc = "thrown"
        /\ cur.err = "WalletError"
        /\ cur.failedAt = "resolve"
        /\ Len(cur.events) = 1
        /\ cur.events[1].call = "wallets.select"
        /\ broadcast = <<>>
        /\ transactions = ledger0

C14_Witness ==
    /\ NoWalletFound
    /\ cur.events[1] = [call |-> "wallets.select", ok |-> TRUE]
    /\ cur.err = "WalletError"
    /\ ledger0 # <<>>

\* the answers the describe-asset step of the invocation got
Answered(call) == \E i \in 1..Len(cur.events) : cur.events[i] = [call |-> call, ok |-> TRUE]
Unanswered(call) == \E i \in 1..Len(cur.events) : cur.events[i] = [call |-> call, ok |-> FALSE]

\* C15: in the describe-asset step a failing symbol read yields the symbol
\* 'TOKEN' and a failing price source a null price, and neither aborts the
\* trade: the step fails only when the decimals read fails.
C15_BestEffortDescribe ==
    /\ (cur.pc = "thrown" /\ cur.failedAt = "describe") => Unanswered("decimals")
    /\ (Answered("decimals") /\ Unanswered("symbol")) => cur.symbol = "TOKEN"
    /\ (Answered("decimals") /\ Unanswered("getUsdPrice")) =>
           (cur.priceUsd = None /\ cur.failedAt # "describe")

\* the quote response carries neither a nested transaction nor a flattened shape
QuoteLacksPayload ==
    /\ cur.quoteAnswer = "json"
    /\ cur.quote.liquidityAvailable
    /\ cur.quote.transaction = None
    /\ cur.quote.to = None

\* the quote response names no native value, nested or flattened
QuoteLacksValue ==
    /\ (IsSome(cur.quote.transaction) => Get(cur.quote.transaction).value = None)
    /\ cur.quote.value = None

\* C16: a quote with neither a nested transaction payload nor a flattened
\* shape fails the invocation with a TradeError before anything is
\* broadcast; a swap built from a payload that names no native value is
\* submitted with value zero.
C16_MalformedQuote ==
    /\ QuoteLacksPayload =>
           /\ cur.pc = "thrown"
           /\ cur.err = "TradeError"
           /\ cur.failedAt = "quote"
           /\ broadcast = <<>>
           /\ ~Called("allowance") /\ ~Called("sendTransaction")
    /\ QuoteLacksValue => \A i \in Sent("swap") : broadcast[i].value = 0

C16_Witness ==
    /\ QuoteLacksPayload
    /\ cur.action = "sell"
    /\ IsSome(cur.quote.allowanceTarget)
    /\ cur.pc = "thrown"

\* the to, data and value of the quote the invocation fetched
QuotedTo == IF IsSome(cur.quote.transaction) THEN Some(Get(cur.quote.transaction).to) ELSE cur.quote.to
QuotedData == IF IsSome(cur.quote.transaction) THEN Some(Get(cur.quote.transaction).data) ELSE cur.quote.data
QuotedValue ==
    IF IsSome(cur.quote.transaction) /\ IsSome(Get(cur.quote.transaction).value)
    THEN Get(Get(cur.quote.transaction).value)
    ELSE IF IsSome(cur.quote.value) THEN Get(cur.quote.value) ELSE 0

\* C17: every invocation that submits a swap has fetched its own quote, once
\* and before the submission, and the swap carries exactly the to, data and
\* value of that quote: the nested transaction fields when present, else the
\* flattened ones.
C17_FreshQuote ==
    \A k \in Calls("sendTransaction") :
        /\ Cardinality(Calls("fetchQuote")) = 1
        /\ \A i \in Calls("fetchQuote") : i < k /\ cur.events[i].ok
        /\ cur.quoteAnswer = "json"
        /\ \A i \in Sent("swap") :
               /\ broadcast[i].to = QuotedTo
               /\ broadcast[i].data = QuotedData
               /\ broadcast[i].value = QuotedValue
               /\ broadcast[i].from = cur.signer

C17_Witness ==
    /\ cur.attempt = 2
    /\ ledger0 # <<>>
    /\ Sent("swap") # {}
    /\ IsSome(cur.quote.transaction) /\ IsSome(cur.quote.to)
    /\ Get(cur.quote.transaction).value = None

\* C18: the quote request names the address of the signer resolved for the
\* user (the address of the user's wallet) as taker and the normalized raw
\* amount as sellAmount; a buy sells the native sentinel for the token, a
\* sell the token for the native sentinel.
C18_QuoteRequest ==
    /\ Called("fetchQuote") <=> IsSome(cur.request)
    /\ IsSome(cur.request) =>
           LET r == Get(cur.request)
               row == Get(wallets[cur.telegramUserId])
           IN  /\ r.taker = row.address
               /\ r.taker = AddressOf(decryptPrivateKey(row.encrypted_private_key).pk)
               /\ r.sellAmount.mant = cur.amount.mant
               /\ r.sellAmount.mant > 0
               /\ r.sellAmount.exp =
                      (IF cur.action = "buy" THEN EtherDecimals ELSE cur.decimals) - cur.amount.frac
               /\ r.sellAmount.exp >= 0
               /\ IF cur.action = "buy"
                  THEN r.sellToken = ethNative /\ r.buyToken = cur.tokenAddress
                  ELSE r.sellToken = cur.tokenAddress /\ r.buyToken = ethNative

C18_Witness ==
    /\ IsSome(cur.request)
    /\ cur.action = "buy"
    /\ cur.amount = Amount(1, 1)
    /\ cur.pc = "returned"

\* C19: within one invocation the quote is fetched at most once and at most
\* one approval and one swap are submitted; after a failed receipt or any
\* other failure nothing more is called or submitted, and the next thing to
\* happen is a new invocation.
C19_NoRetries ==
    /\ [](\A call \in {"wallets.select", "fetchQuote", "allowance", "approve", "approve.wait",
                        "sendTransaction", "tx.wait", "transactions.insert"} :
              Cardinality(Calls(call)) <= 1)
    /\ [](Cardinality(Sent("approve")) <= 1 /\ Cardinality(Sent("swap")) <= 1)
    /\ [](SwapReceiptNotSuccess => cur.pc = "thrown")
    /\ [][cur.pc = "thrown" =>
             /\ cur'.attempt = cur.attempt + 1
             /\ cur'.events = <<>>
             /\ broadcast' = <<>>]_vars

C19_Witness ==
    /\ cur.receipt = [kind |-> "receipt", status |-> 0]
    /\ cur.pc = "thrown"
    /\ Cardinality(Sent("approve")) = 1
    /\ Cardinality(Sent("swap")) = 1

\* the rows of table wallets of a user
WalletsOf(u) == {r \in walletsTable : r.telegram_user_id = u}

\* C20: at most one wallet exists per user identifier in every reachable
\* state, whatever the interleaving of ensureUserAndWallet and
\* importUserWallet calls for the same or for different users.
C20_OneWalletPerUser ==
    \A u \in Users : Cardinality(WalletsOf(u)) <= 1

\* two ensureUserAndWallet calls for one user ran side by side, each created
\* its own wallet, and one row is stored
C20_Witness ==
    /\ walletCalls["h1"].op = "ensureUserAndWallet"
    /\ walletCalls["h2"].op = "ensureUserAndWallet"
    /\ walletCalls["h1"].pc = "returned" /\ walletCalls["h2"].pc = "returned"
    /\ walletCalls["h1"].telegramUserId = walletCalls["h2"].telegramUserId
    /\ IsSome(walletCalls["h1"].wallet) /\ IsSome(walletCalls["h2"].wallet)
    /\ walletCalls["h1"].wallet # walletCalls["h2"].wallet
    /\ Cardinality(WalletsOf(walletCalls["h1"].telegramUserId)) = 1

\* C21: when importUserWallet returns an address, the wallet stored for the
\* user is the imported one and getSignerForUser yields a signer for exactly
\* that address, whether or not the user had a wallet or a users row before.
C21_ImportOverwrites ==
    [][\A h \in Handlers :
          (walletCalls[h].pc = "upsertWallet" /\ walletCalls'[h].pc = "returned") =>
              LET u == walletCalls[h].telegramUserId
              IN  /\ IsSome(wallets'[u])
                  /\ Get(wallets'[u]).address = walletCalls'[h].address
                  /\ getSignerForUser(wallets'[u]).ok
                  /\ getSignerForUser(wallets'[u]).address = walletCalls'[h].address]_vars

\* the private key an address was derived from
KeyOfAddress(address) == CHOOSE pk \in PrivateKeys : AddressOf(pk) = address

\* C22: decryptPrivateKey(encryptPrivateKey(K)) is K for every key K and every
\* nonce, so the address derived from the decrypted key of every wallet, stored
\* or about to be stored, is the address kept with it.
C22_RoundTrip ==
    /\ \A pk \in PrivateKeys, iv \in Ivs :
           decryptPrivateKey(encryptPrivateKey(pk, iv)) = [ok |-> TRUE, pk |-> pk]
    /\ \A r \in walletsTable :
           LET d == decryptPrivateKey(r.encrypted_private_key)
           IN  d.ok /\ AddressOf(d.pk) = r.address
    /\ \A h \in Handlers :
           IsSome(walletCalls[h].wallet) =>
               LET d == decryptPrivateKey(Get(walletCalls[h].wallet).encrypted_private_key)
               IN  d.ok /\ AddressOf(d.pk) = Get(walletCalls[h].wallet).address

C22_Witness ==
    \E r \in walletsTable, h \in Handlers :
        /\ walletCalls[h].op = "importUserWallet"
        /\ walletCalls[h].pc = "returned"
        /\ walletCalls[h].address = r.address
        /\ r.telegram_user_id = walletCalls[h].telegramUserId
        /\ r.encrypted_private_key.iv # 0
        /\ r.encrypted_private_key.ciphertext # KeyOfAddress(r.address)

\* the envelope is not the one encryptPrivateKey produced: its ciphertext or
\* its tag has been altered since
Altered(enc) == enc.tag # AuthTag(EncryptionKey, enc.iv, enc.ciphertext)

\* the invocation has read the wallet of a user whose stored envelope is altered
AlteredWalletRead ==
    /\ cur.telegramUserId \in Users
    /\ cur.events # <<>>
    /\ cur.events[1] = [call |-> "wallets.select", ok |-> TRUE]
    /\ IsSome(wallets[cur.telegramUserId])
    /\ Altered(Get(wallets[cur.telegramUserId]).encrypted_private_key)

\* C23: decryption fails closed. An envelope whose ciphertext or whose tag was
\* altered is never decrypted into a key: getSignerForUser fails instead, and
\* the buyToken / sellToken invocation that read it ends there with an error,
\* with nothing broadcast and no record written.
C23_FailsClosed ==
    /\ \A pk \in PrivateKeys, iv \in Ivs :
           LET row == WalletRow(pk, iv)
           IN  /\ ~decryptPrivateKey(Tampered(row).encrypted_private_key).ok
               /\ ~decryptPrivateKey(TamperedTag(row).encrypted_private_key).ok
               /\ ~getSignerForUser(Some(Tampered(row))).ok
               /\ ~getSignerForUser(Some(TamperedTag(row))).ok
    /\ AlteredWalletRead =>
           /\ cur.pc = "thrown"
           /\ cur.err = "Error"
           /\ cur.failedAt = "resolve"
           /\ cur.signer = 0
           /\ Len(cur.events) = 1
           /\ broadcast = <<>>
           /\ transactions = ledger0

C23_Witness ==
    /\ AlteredWalletRead
    /\ LET enc == Get(wallets[cur.telegramUserId]).encrypted_private_key
       IN  enc.ciphertext = encryptPrivateKey(cur.telegramUserId, enc.iv).ciphertext
    /\ cur.pc = "thrown"
    /\ cur.action = "sell"

\* C26: the ledger is append-only. Every step leaves the records there are
\* in place and in order; the only step that changes the ledger is a
\* recordTransaction call, and it appends exactly one row.
C26_AppendOnly ==
    [][/\ Len(transactions') >= Len(transactions)
       /\ SubSeq(transactions', 1, Len(transactions)) = transactions
       /\ transactions' # transactions =>
              /\ cur.pc = "record"
              /\ Len(transactions') = Len(transactions) + 1
       /\ (cur.pc = "record" /\ cur'.pc = "returned") =>
              Len(transactions') = Len(transactions) + 1]_vars

C26_Witness ==
    /\ cur.pc = "returned"
    /\ ledger0 # <<>>
    /\ Len(transactions) = Len(ledger0) + 1
    /\ transactions[Len(transactions)].symbol = ledger0[Len(ledger0)].symbol
    /\ transactions[Len(transactions)].telegram_user_id = ledger0[Len(ledger0)].telegram_user_id

\* the human amount a is n base units of an asset with d decimals
IsUnits(a, n, d) == a.frac <= d /\ a.mant * Pow10(d - a.frac) = n

\* C27: a buy that returned has persisted exactly one record of type buy
\* whose amount is the quote's buyAmount in units of the token's decimals, and
\* returns that amount as tokensReceived; a sell that returned has persisted
\* exactly one record of type sell whose amount is the amount the caller
\* passed, returns it as tokensSold, and returns as ethReceived the quote's
\* buyAmount in units of 18 decimals.
C27_RealizedAmounts ==
    (cur.pc = "returned" /\ IsSome(cur.quote.buyAmount)) =>
        /\ Len(transactions) = Len(ledger0) + 1
        /\ LET row == transactions[Len(transactions)]
               bought == Get(cur.quote.buyAmount)
           IN  /\ row.telegram_user_id = cur.telegramUserId
               /\ row.order_type = cur.action
               /\ row.amount = cur.result.amount
               /\ cur.action = "buy" =>
                      /\ IsUnits(row.amount, bought, cur.decimals)
                      /\ cur.result.counter = cur.amount
               /\ cur.action = "sell" =>
                      /\ row.amount = cur.amount
                      /\ IsUnits(cur.result.counter, bought, EtherDecimals)

C27_Witness ==
    /\ cur.pc = "returned"
    /\ cur.action = "sell"
    /\ IsSome(cur.quote.buyAmount)
    /\ cur.result.counter.frac > 0
    /\ cur.result.amount = cur.amount
    /\ ledger0 # <<>>
    /\ ledger0[Len(ledger0)].order_type = "buy"
    /\ ledger0[Len(ledger0)].amount.mant > 0

\* the sum of the amounts of the user's records of one type for one symbol,
\* in units of 10^-scale
RECURSIVE TotalOf(_, _, _, _, _)
TotalOf(table, u, s, type, scale) ==
    IF table = <<>> THEN 0
    ELSE LET r == table[Len(table)]
             rest == TotalOf(SubSeq(table, 1, Len(table) - 1), u, s, type, scale)
         IN  IF r.telegram_user_id = u /\ r.symbol = s /\ r.order_type = type
             THEN rest + r.amount.mant * Pow10(scale - r.amount.frac)
             ELSE rest

\* net position of the user in the symbol: buys minus sells
NetOf(table, u, s, scale) ==
    TotalOf(table, u, s, "buy", scale) - TotalOf(table, u, s, "sell", scale)

\* C25: the holdings query of a user lists a symbol exactly when the sum of
\* that user's buy amounts minus the sum of that user's sell amounts for the
\* symbol is strictly positive, and lists it with that net amount; other
\* users' records do not count.
C25_Holdings ==
    holdings.pc = "returned" =>
        LET u == holdings.telegramUserId
            scale == Scale(ledger0)
        IN  \A s \in LedgerSymbols :
               LET net == NetOf(ledger0, u, s, scale)
                   listed == {h \in holdings.data : h.token_address = s}
               IN  /\ Cardinality(listed) = (IF net > 0 THEN 1 ELSE 0)
                   /\ \A h \in listed :
                          h.net_amount.mant * Pow10(scale - h.net_amount.frac) = net

\* a symbol listed with a net below what was bought, while the other user
\* holds records too
C25_Witness ==
    /\ holdings.pc = "returned"
    /\ holdings.data # {}
    /\ \E i \in 1..Len(ledger0) : ledger0[i].telegram_user_id # holdings.telegramUserId
    /\ \E i \in 1..Len(ledger0), h \in holdings.data :
           /\ ledger0[i].telegram_user_id = holdings.telegramUserId
           /\ ledger0[i].order_type = "sell"
           /\ ledger0[i].symbol = h.token_address

\* the private key a log entry discloses: the text of an /import message is
\* the command followed by the key
DisclosesKey(entry) ==
    /\ IsSome(entry.update)
    /\ Get(entry.update).kind = "import"
    /\ validatePrivateKey(Get(entry.update).key)

\* C24: no private key is persisted or logged in plaintext. Every wallets row
\* holds the address and the envelope {iv, ciphertext, tag} and nothing else,
\* the ciphertext is not the key, and nothing handed to the logger holds a
\* private key.
C24_NoPlaintextKey ==
    /\ \A r \in walletsTable :
           /\ DOMAIN r = {"telegram_user_id", "address", "encrypted_private_key"}
           /\ DOMAIN r.encrypted_private_key = {"iv", "ciphertext", "tag"}
           /\ r.encrypted_private_key.ciphertext # KeyOfAddress(r.address)
    /\ \A entry \in logs : ~DisclosesKey(entry)

\* the handlers that are awaiting buyToken / sellToken
Trading == {h \in Handlers : ctx[h].pc = "trading"}

\* C28: at no time are two buyToken / sellToken invocations in flight for one
\* user: while a trade of the user is awaited, further trade messages of that
\* user are not handled.
C28_OneTradePerUser ==
    \A a, b \in Trading :
        a # b => Get(ctx[a].call).telegramUserId # Get(ctx[b].call).telegramUserId

\* a trade is in flight while further updates are still to be delivered
C28_Witness ==
    \E h \in Trading :
        /\ updates < MaxUpdates
        /\ ~CanDispatch
        /\ IsSome(botSessions[ctx[h].update.from])
        /\ IsSome(Get(botSessions[ctx[h].update.from]).pendingAction)

\* the message category of a reply
Category(message, err) ==
    CASE message = "Network is experiencing heavy traffic. Please try again in a few minutes."
            -> "network"
      [] message = "Insufficient funds for this transaction. Please check your ETH balance."
            -> "funds"
      [] message = "Price moved too much during transaction. Please try again with a smaller amount."
            -> "slippage"
      [] message = "Insufficient liquidity for this trade. Try a smaller amount or different token."
            -> "liquidity"
      [] IsUserError(err) /\ message = err.message -> "user"
      [] OTHER -> "generic"

\* C29: when the handling of a text message ends in an error, the reply is
\* of the category the error handler assigns to the error (the error's own
\* message for a user error, otherwise network, funds, slippage or liquidity
\* by the error text in that order, otherwise generic), and the error has
\* been logged.
C29_ErrorReply ==
    \A h \in Handlers :
        (ctx[h].update.kind = "text" /\ ctx[h].pc = "saveSession" /\ IsSome(ctx[h].err)) =>
            LET err == Get(ctx[h].err)
                reply == ctx[h].replies[Len(ctx[h].replies)]
            IN  /\ Category(reply, err) = Category(createErrorHandler(err), err)
                /\ \E entry \in logs : entry.error = Some(err)

\* C30: the text-message handler calls buyToken / sellToken only when the
\* session it was given holds a pendingAction and the message is a trade
\* command with a positive amount whose action is the pending one, and it
\* calls it for the sender, the pending action and its token address, and the
\* amount of the message. With no pending action or another action it makes
\* no call and leaves the session as it was given.
C30_TradeOnlyOnPendingAction ==
    \A h \in Handlers :
        LET c == ctx[h]
            pending == c.session0.pendingAction
            agrees == /\ IsSome(pending)
                      /\ c.update.text # <<>>
                      /\ ToLowerCase(Head(c.update.text)) = Get(pending).action
        IN  /\ IsSome(c.call) =>
                   /\ c.update.kind = "text"
                   /\ agrees
                   /\ parseFloat(Tail(Tail(c.update.text))).value.mant > 0
                   /\ Get(c.call) = [telegramUserId |-> c.update.from,
                                     action |-> Get(pending).action,
                                     tokenAddress |-> Get(pending).address,
                                     amount |-> parseFloat(Tail(Tail(c.update.text))).value]
            /\ (c.update.kind = "text" /\ ~agrees) =>
                   /\ c.call = None
                   /\ c.pc \notin {"trading", "holdings", "confirm"}
                   /\ c.pc # "loadSession" => c.session = c.session0

\* a sell started by "SELL 0.1" against the token of the pending action
C30_Witness ==
    \E h \in Trading :
        /\ Head(ctx[h].update.text) = "SELL"
        /\ Get(ctx[h].call).action = "sell"
        /\ Get(ctx[h].call).tokenAddress = "0xOther"
        /\ ctx[h].session.pendingAction = Some([action |-> "sell", address |-> "0xOther"])

\* the handling of the update in slot h ends with this step
UpdateEnds(h) == ctx[h].pc \in {"saveSession", "catchReply"} /\ ctx'[h].pc = "idle"

\* the pendingAction the store holds for a chat
Persisted(sessions, chat) == Coalesce(sessions[chat], EmptySession).pendingAction

\* C31: when an update ends in which buyToken / sellToken returned, the
\* session stored for the chat has no pendingAction; when an update ends in
\* which the trade failed, the stored pendingAction is still the one the
\* trade was started from.
C31_ClearedExactlyOnSuccess ==
    [][\A h \in Handlers :
          (UpdateEnds(h) /\ IsSome(ctx[h].call)) =>
              LET chat == ctx[h].update.from
              IN  IF IsSome(ctx[h].tradeResult)
                  THEN Persisted(botSessions', chat) = None
                  ELSE Persisted(botSessions', chat) = ctx[h].session0.pendingAction]_vars

\* the session the store holds for a chat ({} when it holds none)
Stored(sessions, chat) == Coalesce(sessions[chat], EmptySession)

\* C32: the session is carried from one update of a chat to the next through
\* bot_sessions: the session a handler is given is the one stored for the
\* chat, and when the update ends the session stored for the chat is the one
\* its handler left. Updates being handled one after another, each handler
\* then starts from what the previous handler of the chat left.
C32_SessionPersistence ==
    [][\A h \in Handlers :
          LET chat == ctx[h].update.from
          IN  /\ (ctx[h].pc = "loadSession" /\ ctx'[h].pc # "loadSession") =>
                     ctx'[h].session0 = Stored(botSessions, chat)
              /\ UpdateEnds(h) => Stored(botSessions', chat) = ctx[h].session]_vars

\* the select on bot_sessions failed for the update being handled
LoadFailed == \E entry \in logs : entry.msg = "Session load error"

\* C33: when the read of bot_sessions fails for an update, its handler is
\* given the empty session, and a session with a pendingAction stored for
\* the chat is the same after the update as before it.
C33_FailedLoadKeepsSession ==
    [][\A h \in Handlers :
          /\ (ctx[h].pc = "loadSession" /\ LoadFailed') => ctx'[h].session0 = EmptySession
          /\ (UpdateEnds(h) /\ LoadFailed /\ IsSome(Persisted(botSessions, ctx[h].update.from))) =>
                 Stored(botSessions', ctx[h].update.from) =
                     Stored(botSessions, ctx[h].update.from)]_vars

ReportedStatuses(h) == {h.returned.services[n].status : n \in ServiceNames}
C35_CheckHealth ==
    IsSome(health) =>
        LET h == Get(health)
        IN  /\ h.returned.status \in {"healthy", "degraded", "unhealthy"}
            /\ (h.returned.status = "healthy") <=> (ReportedStatuses(h) = {"healthy"})
            /\ (h.returned.status = "unhealthy") <=> ("unhealthy" \in ReportedStatuses(h))
            /\ (h.returned.status = "degraded") <=>
                   (ReportedStatuses(h) # {"healthy"} /\ "unhealthy" \notin ReportedStatuses(h))
            /\ \A n \in ServiceNames :
                   /\ h.settled[n].status = "rejected" =>
                          h.returned.services[n].status = "unhealthy"
                   /\ h.settled[n].status = "fulfilled" =>
                          h.returned.services[n] = Get(h.settled[n].value)

\* a check rejected while another service was degraded
C35_Witness ==
    /\ IsSome(health)
    /\ Get(health).settled.rpc.status = "rejected"
    /\ Get(health).settled.alchemy.status = "fulfilled"
    /\ Get(health).returned.services.alchemy.status = "degraded"
    /\ Get(health).returned.status = "unhealthy"

\* C36: when a call of ensureUserAndWallet returns, the address it returns is
\* the address of the wallets row stored for the user at that moment, whatever
\* calls ran before it or beside it and whichever of its inserts failed.
C36_ReturnsStoredAddress ==
    [][\A h \in Handlers :
          (/\ walletCalls[h].op = "ensureUserAndWallet"
           /\ walletCalls[h].pc # "returned"
           /\ walletCalls'[h].pc = "returned") =>
              LET u == walletCalls[h].telegramUserId
              IN  /\ IsSome(wallets'[u])
                  /\ Get(wallets'[u]).address = walletCalls'[h].address]_vars

\* the text without the blanks at its ends and without angle brackets
Cleaned(text) ==
    LET First(str) == CHOOSE i \in 1..Len(str) : str[i] # Blank /\ \A j \in 1..(i - 1) : str[j] = Blank
        Last(str) == CHOOSE i \in 1..Len(str) : str[i] # Blank /\ \A j \in (i + 1)..Len(str) : str[j] = Blank
        inner == IF \A i \in 1..Len(text) : text[i] = Blank THEN <<>>
                 ELSE SubSeq(text, First(text), Last(text))
    IN  SelectSeq(inner, LAMBDA c : c \notin {"<", ">"})

\* str is a word that reads buy or sell, blanks, and a decimal numeral that
\* has a digit other than 0
IsTradeCommand(str) ==
    \E k \in 2..Len(str) :
        /\ str[1] \in {"buy", "BUY", "sell", "Sell", "SELL"}
        /\ \A i \in 2..k : str[i] = Blank
        /\ k < Len(str)
        /\ \A i \in (k + 1)..Len(str) : str[i] \in {"0", "1", "."}
        /\ Cardinality({i \in (k + 1)..Len(str) : str[i] = "."}) <= 1
        /\ str[Len(str)] # "."
        /\ \E i \in (k + 1)..Len(str) : str[i] = "1"

\* C37: validateTradeCommand returns exactly for the texts that, trimmed and
\* without angle brackets, read buy or sell (in any case), blanks and a decimal
\* amount greater than zero; it returns the action in lower case and an amount
\* greater than zero, and for every other text it throws a ValidationError.
C37_ValidateTradeCommand ==
    IsSome(validated) =>
        LET text == Get(validated).text
            r == Get(validated).returned
        IN  /\ r.ok <=> IsTradeCommand(Cleaned(text))
            /\ r.ok => /\ r.action \in Actions
                       /\ r.action = (IF Cleaned(text)[1] \in {"buy", "BUY"} THEN "buy" ELSE "sell")
                       /\ r.amount.mant > 0
            /\ ~r.ok => r.error # ""

\* " Sell  <0.1> " is accepted as a sell of 0.1
C37_Witness ==
    /\ IsSome(validated)
    /\ Get(validated).text = <<Blank, "Sell", Blank, Blank, "<", "0", ".", "1", ">", Blank>>
    /\ Get(validated).returned.ok
    /\ Get(validated).returned.action = "sell"
    /\ Get(validated).returned.amount = Amount(1, 1)

\* the front end starts no trade with an amount that is not greater than zero
C37_NoTradeWithoutAmount ==
    \A h \in Handlers : IsSome(ctx[h].call) => Get(ctx[h].call).amount.mant > 0

\* C38: what getHoldings returns for a user is what get_holdings_for_user
\* returns for the same user on the same ledger: the same symbols, each with
\* the same net amount.
C38_HoldingsAgree ==
    holdings.pc = "returned" =>
        {<<h.symbol, h.net_amount>> : h \in holdings.data} =
            {<<h.token_address, h.net_amount>> :
                h \in get_holdings_for_user(ledger0, holdings.telegramUserId)}

\* the two agree on the symbols whose net amount is positive
C38_AgreeWherePositive ==
    holdings.pc = "returned" =>
        {<<h.symbol, h.net_amount>> : h \in {x \in holdings.data : x.net_amount.mant > 0}} =
            {<<h.token_address, h.net_amount>> :
                h \in get_holdings_for_user(ledger0, holdings.telegramUserId)}

\* C39: after any sequence of buyToken and sellToken invocations, for every
\* user and symbol the recorded buy amounts sum to at least the recorded sell
\* amounts.
C39_NetNeverNegative ==
    \A u \in Users, s \in {transactions[i].symbol : i \in 1..Len(transactions)} :
        NetOf(transactions, u, s, Scale(transactions)) >= 0

====
